---- MODULE Spec2Model ----
(***************************************************************************)
(* Model of the normalization-and-diff engine of driftwatch:               *)
(*   internal/model   (Permission, RBACSnapshot.AddPermissions,            *)
(*                     ExpandPolicyRulesToPermissions, NewNetPolDigest)    *)
(*   internal/diff    (DiffRBAC, DiffNetworkPolicies)                      *)
(*   internal/collectors (buildNetPolSnapshot)                             *)
(* Go maps are functions with a finite domain; the order in which a Go     *)
(* `range` visits a map is a nondeterministic choice of the action that    *)
(* runs the loop.                                                          *)
(***************************************************************************)
EXTENDS Integers, Sequences, FiniteSets, TLC

\* ------------------------------------------------------------------ bounds
\* longest permission list handed to one AddPermissions call
MaxPermLen == 2
\* longest verbs, resources or nonResourceURLs list of one policy rule
MaxListLen == 2
\* longest list of rules handed to one ExpandPolicyRulesToPermissions call
MaxRules == 2
\* longest list of NetworkPolicy objects handed to one buildNetPolSnapshot call
MaxPolicies == 2
\* longest ingress or egress rule list of a digested NetworkPolicy
MaxPolicyRules == 1

\* elements per DiffPSA argument
MaxNamespaces == 2
\* longest roles list handed to buildRBACSnapshot
MaxRoles == 1
\* longest clusterRoles list handed to buildRBACSnapshot
MaxClusterRoles == 1
\* longest roleBindings list handed to buildRBACSnapshot
MaxRoleBindings == 2
\* longest clusterRoleBindings list handed to buildRBACSnapshot
MaxClusterRoleBindings == 1

\* ------------------------------------------------------------------ helpers
Range(f) == {f[i] : i \in DOMAIN f}

SeqsUpTo(S, n) == UNION {[1..k -> S] : k \in 0..n}

\* every order in which a Go range loop may visit the keys of a map whose
\* key set is S
IterOrders(S) ==
  {o \in [1..Cardinality(S) -> S] :
     \A i, j \in 1..Cardinality(S) : o[i] = o[j] => i = j}

\* ------------------------------------------------------------------ RBAC data
SubjectKey(kind, name, ns) == [Kind |-> kind, Name |-> name, Namespace |-> ns]

\* the subjects the snapshots may mention
SubjectKeys ==
  { SubjectKey("User", "alice", ""),
    SubjectKey("ServiceAccount", "builder", "ns1") }

Permission(scope, group, res, rn, verb, url) ==
  [ScopeNamespace |-> scope, APIGroup |-> group, Resource |-> res,
   ResourceName |-> rn, Verb |-> verb, NonResourceURL |-> url]

\* the permissions the AddPermissions inputs draw from
Permissions ==
  { Permission("ns1", "", "pods", "*", "get", ""),
    Permission("ns1", "", "pods", "*", "list", ""),
    Permission("*", "", "", "", "get", "/healthz") }

PermLists == SeqsUpTo(Permissions, MaxPermLen)

\* RBACSnapshot.Subjects with no key
EmptySnapshot == [s \in {} |-> {}]

\* Go map read: a missing subject yields the nil permission set
Lookup(snap, subj) == IF subj \in DOMAIN snap THEN snap[subj] ELSE {}

\* a map read that stores the zero value under a key it does not find
MapAfterReadInserting(m, key, zero) ==
  [k \in DOMAIN m \cup {key} |-> IF k = key /\ key \notin DOMAIN m THEN zero ELSE m[k]]

\* the map once `v := m[key]` or `v, ok := m[key]` has run: the read yields
\* the zero value for a key the map does not have and stores nothing
MapAfterRead(m, key, zero) == m

\* the key set of a map[Permission]struct{} once `_, ok := perms[p]` has run
\* for each permission of `read`
RECURSIVE PermsAfterReads(_, _)
PermsAfterReads(perms, read) ==
  IF read = {} THEN perms
  ELSE LET p == CHOOSE q \in read : TRUE
       IN PermsAfterReads(DOMAIN MapAfterRead([q \in perms |-> TRUE], p, TRUE), read \ {p})

\* ------------------------------------------------------------------ state
VARIABLES
  rbacBaseline,   \* RBACSnapshot.Subjects of the baseline snapshot
  rbacLive,       \* RBACSnapshot.Subjects of the live snapshot
  added,          \* history: per snapshot and subject, every permission ever passed to AddPermissions
  rbacDrift,      \* result of DiffRBAC(rbacBaseline, rbacLive)
  rbacDriftRev,   \* result of DiffRBAC(rbacLive, rbacBaseline)
  expRules,       \* ExpandPolicyRulesToPermissions argument: rules
  expNamespace,   \* ExpandPolicyRulesToPermissions argument: bindingNamespace
  expCluster,     \* ExpandPolicyRulesToPermissions argument: clusterScope
  expOut,         \* the call's result, once it has returned
  netpolBaseline, \* result of buildNetPolSnapshot for the baseline side
  netpolLive,     \* result of buildNetPolSnapshot for the live side
  netpolDrift,    \* result of DiffNetworkPolicies(netpolBaseline, netpolLive)
  digInA,         \* NewNetPolDigest argument of the first call
  digInB,         \* NewNetPolDigest argument of the second call
  digOutA,        \* result of the first call
  digOutB,        \* result of the second call
  psaBaseline,    \* DiffPSA argument: baseline
  psaLive,        \* DiffPSA argument: live
  psaDrift,       \* result of DiffPSA(psaBaseline, psaLive)
  psaAlt,         \* a second pair of arguments, and the result of DiffPSA on it
  psaFlat,        \* result of the flat-list DiffPSA(psaBaseline, psaLive)
  buildInput,     \* buildNetPolSnapshot argument: netpols
  buildOut,       \* the call's result, once it has returned
  inRoles,               \* buildRBACSnapshot argument: roles
  inClusterRoles,        \* buildRBACSnapshot argument: clusterRoles
  inRoleBindings,        \* buildRBACSnapshot argument: roleBindings
  inClusterRoleBindings, \* buildRBACSnapshot argument: clusterRoleBindings
  snapshot,              \* the snapshot the call returned, with the AddPermissions calls it made
  rbacDriftAgain  \* result of a second call DiffRBAC(rbacBaseline, rbacLive)

rbacVars == <<rbacBaseline, rbacLive, added, rbacDrift, rbacDriftRev>>

expVars == <<expRules, expNamespace, expCluster, expOut>>

netpolVars == <<netpolBaseline, netpolLive, netpolDrift>>

digVars == <<digInA, digInB, digOutA, digOutB>>

psaVars == <<psaBaseline, psaLive, psaDrift, psaAlt, psaFlat>>

buildVars == <<buildInput, buildOut>>

collectVars == <<inRoles, inClusterRoles, inRoleBindings, inClusterRoleBindings, snapshot>>

rerunVars == <<rbacDriftAgain>>

vars ==
  <<rbacVars, expVars, netpolVars, digVars, psaVars, buildVars, collectVars, rerunVars>>

\* ------------------------------------------------------------------ AddPermissions
\* the loop `for _, p := range perms { permSet[p] = struct{}{} }`
RECURSIVE InsertAll(_, _)
InsertAll(permSet, perms) ==
  IF perms = <<>> THEN permSet
  ELSE InsertAll(permSet \cup {Head(perms)}, Tail(perms))

\* AddPermissions that starts from a fresh permission set on every call
\* instead of the subject's existing one
AddPermissionsFreshSet(snap, subj, perms) ==
  IF Len(perms) = 0 THEN snap
  ELSE [k \in DOMAIN snap \cup {subj} |->
          IF k = subj THEN InsertAll({}, perms) ELSE snap[k]]

\* AddPermissions without the early return on an empty list
AddPermissionsNoEarlyReturn(snap, subj, perms) ==
  LET permSet == IF subj \in DOMAIN snap THEN snap[subj] ELSE {}
  IN [k \in DOMAIN snap \cup {subj} |->
        IF k = subj THEN InsertAll(permSet, perms) ELSE snap[k]]

\* a nil Subjects map is replaced by an empty one before the first insert, so
\* nil and empty are the same function with no key here
AddPermissions(snap, subj, perms) ==
  IF Len(perms) = 0 THEN snap
  ELSE LET permSet == IF subj \in DOMAIN snap THEN snap[subj] ELSE {}
       IN [k \in DOMAIN snap \cup {subj} |->
             IF k = subj THEN InsertAll(permSet, perms) ELSE snap[k]]

\* ------------------------------------------------------------------ DiffRBAC
NoRBACDrift == [done |-> FALSE, Extra |-> <<>>, Missing |-> <<>>]

\* iteration orders of the per-subject permission maps of one snapshot: one
\* order of Lookup(snap, s) for every subject s of `subjects`
RECURSIVE PermOrders(_, _)
PermOrders(snap, subjects) ==
  IF subjects = {} THEN {[s \in {} |-> <<>>]}
  ELSE LET s0 == CHOOSE s \in subjects : TRUE
       IN {[s \in DOMAIN f \cup {s0} |-> IF s = s0 THEN o ELSE f[s]] :
             f \in PermOrders(snap, subjects \ {s0}),
             o \in IterOrders(Lookup(snap, s0))}

\* the permissions of `order`, in order, that are not keys of `other`
RECURSIVE NotIn(_, _)
NotIn(order, other) ==
  IF order = <<>> THEN <<>>
  ELSE IF Head(order) \notin other
       THEN <<Head(order)>> \o NotIn(Tail(order), other)
       ELSE NotIn(Tail(order), other)

\* the permissions of `order`, in order, that are keys of `other`
RECURSIVE AlsoIn(_, _)
AlsoIn(order, other) ==
  IF order = <<>> THEN <<>>
  ELSE IF Head(order) \in other
       THEN <<Head(order)>> \o AlsoIn(Tail(order), other)
       ELSE AlsoIn(Tail(order), other)

\* DiffRBAC that reports extras only for subjects the baseline knows
DiffRBACKnownSubjectsOnly(baseline, live, baseOrd, liveOrd) ==
  LET allSubjects == DOMAIN baseline \cup DOMAIN live
      extras(s) == NotIn(liveOrd[s], Lookup(baseline, s))
      missing(s) == NotIn(baseOrd[s], Lookup(live, s))
      extraKeys == {s \in DOMAIN baseline :
                      Cardinality(Lookup(live, s)) > 0 /\ Len(extras(s)) > 0}
      missingKeys == {s \in allSubjects :
                        Cardinality(Lookup(baseline, s)) > 0 /\ Len(missing(s)) > 0}
  IN [done |-> TRUE,
      Extra |-> [s \in extraKeys |-> extras(s)],
      Missing |-> [s \in missingKeys |-> missing(s)]]

\* DiffRBAC without the `len(extras) > 0` / `len(missing) > 0` tests
DiffRBACEmitEmpty(baseline, live, baseOrd, liveOrd) ==
  LET allSubjects == DOMAIN baseline \cup DOMAIN live
      extras(s) == NotIn(liveOrd[s], Lookup(baseline, s))
      missing(s) == NotIn(baseOrd[s], Lookup(live, s))
      extraKeys == {s \in allSubjects : Cardinality(Lookup(live, s)) > 0}
      missingKeys == {s \in allSubjects : Cardinality(Lookup(baseline, s)) > 0}
  IN [done |-> TRUE,
      Extra |-> [s \in extraKeys |-> extras(s)],
      Missing |-> [s \in missingKeys |-> missing(s)]]

\* DiffRBAC whose Missing loop tests `ok` instead of `!ok`
DiffRBACInvertedTest(baseline, live, baseOrd, liveOrd) ==
  LET allSubjects == DOMAIN baseline \cup DOMAIN live
      extras(s) == NotIn(liveOrd[s], Lookup(baseline, s))
      missing(s) == AlsoIn(baseOrd[s], Lookup(live, s))
      extraKeys == {s \in allSubjects :
                      Cardinality(Lookup(live, s)) > 0 /\ Len(extras(s)) > 0}
      missingKeys == {s \in allSubjects :
                        Cardinality(Lookup(baseline, s)) > 0 /\ Len(missing(s)) > 0}
  IN [done |-> TRUE,
      Extra |-> [s \in extraKeys |-> extras(s)],
      Missing |-> [s \in missingKeys |-> missing(s)]]

DiffRBAC(baseline, live, baseOrd, liveOrd) ==
  LET allSubjects == DOMAIN baseline \cup DOMAIN live
      extras(s) == NotIn(liveOrd[s], Lookup(baseline, s))
      missing(s) == NotIn(baseOrd[s], Lookup(live, s))
      extraKeys == {s \in allSubjects :
                      Cardinality(Lookup(live, s)) > 0 /\ Len(extras(s)) > 0}
      missingKeys == {s \in allSubjects :
                        Cardinality(Lookup(baseline, s)) > 0 /\ Len(missing(s)) > 0}
  IN [done |-> TRUE,
      Extra |-> [s \in extraKeys |-> extras(s)],
      Missing |-> [s \in missingKeys |-> missing(s)]]

\* the Subjects map of the snapshot `snap` once DiffRBAC has made its reads
\* of it for the subjects of `subjects`: `snap.Subjects[subj]`, then one
\* read of that permission map per permission of the other snapshot's set
RECURSIVE SubjectsAfterDiffRBAC(_, _, _)
SubjectsAfterDiffRBAC(snap, other, subjects) ==
  IF subjects = {} THEN snap
  ELSE LET subj == CHOOSE s \in subjects : TRUE
           read == MapAfterRead(snap, subj, {})
           next == IF subj \in DOMAIN read
                   THEN [read EXCEPT ![subj] = PermsAfterReads(@, Lookup(other, subj))]
                   ELSE read
       IN SubjectsAfterDiffRBAC(next, other, subjects \ {subj})

\* ------------------------------------------------------------------ actions
Building == ~rbacDrift.done /\ ~rbacDriftRev.done /\ ~rbacDriftAgain.done

AddToBaseline ==
  /\ Building
  /\ \E subj \in SubjectKeys, perms \in PermLists :
       /\ rbacBaseline' = AddPermissions(rbacBaseline, subj, perms)
       /\ added' = [added EXCEPT !.baseline[subj] = @ \cup Range(perms)]
  /\ UNCHANGED <<rbacLive, rbacDrift, rbacDriftRev>>
  /\ UNCHANGED <<expVars, netpolVars, digVars, psaVars, buildVars, collectVars, rerunVars>>

AddToLive ==
  /\ Building
  /\ \E subj \in SubjectKeys, perms \in PermLists :
       /\ rbacLive' = AddPermissions(rbacLive, subj, perms)
       /\ added' = [added EXCEPT !.live[subj] = @ \cup Range(perms)]
  /\ UNCHANGED <<rbacBaseline, rbacDrift, rbacDriftRev>>
  /\ UNCHANGED <<expVars, netpolVars, digVars, psaVars, buildVars, collectVars, rerunVars>>

RunDiffRBAC ==
  /\ ~rbacDrift.done
  /\ LET subjects == DOMAIN rbacBaseline \cup DOMAIN rbacLive
     IN \E baseOrd \in PermOrders(rbacBaseline, subjects),
           liveOrd \in PermOrders(rbacLive, subjects) :
          rbacDrift' = DiffRBAC(rbacBaseline, rbacLive, baseOrd, liveOrd)
  /\ rbacBaseline' = SubjectsAfterDiffRBAC(rbacBaseline, rbacLive,
                                           DOMAIN rbacBaseline \cup DOMAIN rbacLive)
  /\ rbacLive' = SubjectsAfterDiffRBAC(rbacLive, rbacBaseline,
                                       DOMAIN rbacBaseline \cup DOMAIN rbacLive)
  /\ UNCHANGED <<added, rbacDriftRev>>
  /\ UNCHANGED <<expVars, netpolVars, digVars, psaVars, buildVars, collectVars, rerunVars>>

RunDiffRBACSwapped ==
  /\ ~rbacDriftRev.done
  /\ LET subjects == DOMAIN rbacBaseline \cup DOMAIN rbacLive
     IN \E baseOrd \in PermOrders(rbacLive, subjects),
           liveOrd \in PermOrders(rbacBaseline, subjects) :
          rbacDriftRev' = DiffRBAC(rbacLive, rbacBaseline, baseOrd, liveOrd)
  /\ rbacBaseline' = SubjectsAfterDiffRBAC(rbacBaseline, rbacLive,
                                           DOMAIN rbacBaseline \cup DOMAIN rbacLive)
  /\ rbacLive' = SubjectsAfterDiffRBAC(rbacLive, rbacBaseline,
                                       DOMAIN rbacBaseline \cup DOMAIN rbacLive)
  /\ UNCHANGED <<added, rbacDrift>>
  /\ UNCHANGED <<expVars, netpolVars, digVars, psaVars, buildVars, collectVars, rerunVars>>

RBACInit ==
  /\ rbacBaseline = EmptySnapshot
  /\ rbacLive = EmptySnapshot
  /\ added = [baseline |-> [s \in SubjectKeys |-> {}],
              live |-> [s \in SubjectKeys |-> {}]]
  /\ rbacDrift = NoRBACDrift
  /\ rbacDriftRev = NoRBACDrift
  /\ rbacDriftAgain = NoRBACDrift

\* DiffRBAC called once more on the two snapshots
RunDiffRBACAgain ==
  /\ ~rbacDriftAgain.done
  /\ LET subjects == DOMAIN rbacBaseline \cup DOMAIN rbacLive
     IN \E baseOrd \in PermOrders(rbacBaseline, subjects),
           liveOrd \in PermOrders(rbacLive, subjects) :
          rbacDriftAgain' = DiffRBAC(rbacBaseline, rbacLive, baseOrd, liveOrd)
  /\ rbacBaseline' = SubjectsAfterDiffRBAC(rbacBaseline, rbacLive,
                                           DOMAIN rbacBaseline \cup DOMAIN rbacLive)
  /\ rbacLive' = SubjectsAfterDiffRBAC(rbacLive, rbacBaseline,
                                       DOMAIN rbacBaseline \cup DOMAIN rbacLive)
  /\ UNCHANGED <<added, rbacDrift, rbacDriftRev>>
  /\ UNCHANGED <<expVars, netpolVars, digVars, psaVars, buildVars, collectVars>>

\* ------------------------------------------------------------------ ExpandPolicyRulesToPermissions
\* rbacv1.PolicyRule
PolicyRule(verbs, groups, resources, names, urls) ==
  [Verbs |-> verbs, APIGroups |-> groups, Resources |-> resources,
   ResourceNames |-> names, NonResourceURLs |-> urls]

VerbNames == <<"get", "list">>
GroupNames == <<"apps", "">>
ResourceKinds == <<"pods", "secrets">>
ObjectNames == <<"web">>
URLPaths == <<"/healthz", "">>

\* every rule whose verbs, resources and nonResourceURLs lists have at most
\* MaxListLen entries (repetitions and the empty string included)
Rules ==
  {PolicyRule(v, g, r, n, u) :
     v \in SeqsUpTo(Range(VerbNames), MaxListLen),
     g \in SeqsUpTo(Range(GroupNames), 1),
     r \in SeqsUpTo(Range(ResourceKinds), MaxListLen),
     n \in SeqsUpTo(Range(ObjectNames), 1),
     u \in SeqsUpTo(Range(URLPaths), MaxListLen)}

\* the rules with at most one entry per list, drawn from the first name of
\* each kind
ShortRules ==
  {PolicyRule(v, g, r, n, u) :
     v \in SeqsUpTo({VerbNames[1]}, 1),
     g \in SeqsUpTo({GroupNames[1]}, 1),
     r \in SeqsUpTo({ResourceKinds[1]}, 1),
     n \in {<<>>},
     u \in SeqsUpTo({URLPaths[1]}, 1)}

\* the rule lists a call is made with: any single rule, or up to MaxRules
\* short rules
RuleLists == {<<r>> : r \in Rules} \cup SeqsUpTo(ShortRules, MaxRules)

BindingNamespaces == {"", "ns1"}

\* the inner loop `for _, url := range rule.NonResourceURLs`
RECURSIVE URLLoop(_, _, _, _)
URLLoop(out, scope, verb, urls) ==
  IF urls = <<>> THEN out
  ELSE URLLoop(Append(out, Permission(scope, "", "", "", verb, Head(urls))),
               scope, verb, Tail(urls))

\* the loop `for _, verb := range rule.Verbs` of the non-resource branch
RECURSIVE URLVerbLoop(_, _, _, _)
URLVerbLoop(out, scope, verbs, urls) ==
  IF verbs = <<>> THEN out
  ELSE URLVerbLoop(URLLoop(out, scope, Head(verbs), urls), scope, Tail(verbs), urls)

\* the loop `for _, rn := range resourceNames`
RECURSIVE NameLoop(_, _, _, _, _, _)
NameLoop(out, scope, verb, group, res, names) ==
  IF names = <<>> THEN out
  ELSE NameLoop(Append(out, Permission(scope, group, res, Head(names), verb, "")),
                scope, verb, group, res, Tail(names))

\* the loop `for _, res := range resources`
RECURSIVE ResourceLoop(_, _, _, _, _, _)
ResourceLoop(out, scope, verb, group, resources, names) ==
  IF resources = <<>> THEN out
  ELSE ResourceLoop(NameLoop(out, scope, verb, group, Head(resources), names),
                    scope, verb, group, Tail(resources), names)

\* the loop `for _, group := range apiGroups`
RECURSIVE GroupLoop(_, _, _, _, _, _)
GroupLoop(out, scope, verb, groups, resources, names) ==
  IF groups = <<>> THEN out
  ELSE GroupLoop(ResourceLoop(out, scope, verb, Head(groups), resources, names),
                 scope, verb, Tail(groups), resources, names)

\* the loop `for _, verb := range rule.Verbs` of the resource branch
RECURSIVE VerbLoop(_, _, _, _, _, _)
VerbLoop(out, scope, verbs, groups, resources, names) ==
  IF verbs = <<>> THEN out
  ELSE VerbLoop(GroupLoop(out, scope, Head(verbs), groups, resources, names),
                scope, Tail(verbs), groups, resources, names)

\* the rule body without the three `if len(...) == 0` defaults
ExpandRuleNoDefaults(out, rule, bindingNamespace, clusterScope) ==
  IF Len(rule.NonResourceURLs) > 0
  THEN URLVerbLoop(out, "*", rule.Verbs, rule.NonResourceURLs)
  ELSE LET scope == IF ~clusterScope THEN bindingNamespace ELSE "*"
       IN VerbLoop(out, scope, rule.Verbs, rule.APIGroups, rule.Resources,
                   rule.ResourceNames)

\* the rule body with the binding's scope computed before the non-resource
\* branch and used in it
ExpandRuleScopedURLs(out, rule, bindingNamespace, clusterScope) ==
  LET scope == IF ~clusterScope THEN bindingNamespace ELSE "*"
  IN IF Len(rule.NonResourceURLs) > 0
     THEN URLVerbLoop(out, scope, rule.Verbs, rule.NonResourceURLs)
     ELSE LET apiGroups == IF Len(rule.APIGroups) = 0 THEN <<"">> ELSE rule.APIGroups
              resources == IF Len(rule.Resources) = 0 THEN <<"">> ELSE rule.Resources
              resourceNames ==
                IF Len(rule.ResourceNames) = 0 THEN <<"*">> ELSE rule.ResourceNames
          IN VerbLoop(out, scope, rule.Verbs, apiGroups, resources, resourceNames)

\* the body of `for _, rule := range rules`: `out` after one rule
ExpandRule(out, rule, bindingNamespace, clusterScope) ==
  IF Len(rule.NonResourceURLs) > 0
  THEN URLVerbLoop(out, "*", rule.Verbs, rule.NonResourceURLs)
  ELSE LET apiGroups == IF Len(rule.APIGroups) = 0 THEN <<"">> ELSE rule.APIGroups
           resources == IF Len(rule.Resources) = 0 THEN <<"">> ELSE rule.Resources
           resourceNames ==
             IF Len(rule.ResourceNames) = 0 THEN <<"*">> ELSE rule.ResourceNames
           scope == IF ~clusterScope THEN bindingNamespace ELSE "*"
       IN VerbLoop(out, scope, rule.Verbs, apiGroups, resources, resourceNames)

RECURSIVE RuleLoop(_, _, _, _)
RuleLoop(out, rules, bindingNamespace, clusterScope) ==
  IF rules = <<>> THEN out
  ELSE RuleLoop(ExpandRule(out, Head(rules), bindingNamespace, clusterScope),
                Tail(rules), bindingNamespace, clusterScope)

ExpandPolicyRulesToPermissions(rules, bindingNamespace, clusterScope) ==
  RuleLoop(<<>>, rules, bindingNamespace, clusterScope)

\* a call is made with arguments drawn from the bounded input sets
ExpandInit ==
  /\ expRules \in RuleLists
  /\ expNamespace \in BindingNamespaces
  /\ expCluster \in BOOLEAN
  /\ expOut = [done |-> FALSE, perms |-> <<>>]

RunExpand ==
  /\ ~expOut.done
  /\ expOut' = [done |-> TRUE,
                perms |-> ExpandPolicyRulesToPermissions(expRules, expNamespace, expCluster)]
  /\ UNCHANGED <<expRules, expNamespace, expCluster>>
  /\ UNCHANGED <<rbacVars, netpolVars, digVars, psaVars, buildVars, collectVars, rerunVars>>

\* ------------------------------------------------------------------ NetworkPolicy data
\* a Go slice: nil, or a (possibly empty) sequence of elements
NilSlice == [nil |-> TRUE, elems |-> <<>>]

Slice(q) == [nil |-> FALSE, elems |-> q]

SlicesUpTo(S, n) == {NilSlice} \cup {Slice(q) : q \in SeqsUpTo(S, n)}

\* networkingv1.NetworkPolicySpec: podSelector.matchLabels (the set of label
\* keys it holds), ingress, egress, policyTypes
NetworkPolicySpec(sel, ingress, egress, types) ==
  [PodSelector |-> sel, Ingress |-> ingress, Egress |-> egress, PolicyTypes |-> types]

\* networkingv1.NetworkPolicy: object metadata and spec
NetworkPolicy(ns, name, rv, labels, spec) ==
  [Namespace |-> ns, Name |-> name, ResourceVersion |-> rv, Labels |-> labels,
   Spec |-> spec]

\* the strings of the model in ascending byte order, as Go's < compares them
StringOrder == <<"allow-dns", "deny-all", "ns1", "ns2">>

StrLess(a, b) ==
  \E i, j \in 1..Len(StringOrder) :
    StringOrder[i] = a /\ StringOrder[j] = b /\ i < j

\* ------------------------------------------------------------------ NewNetPolDigest
\* the JSON text of one ingress or egress rule; the rule "badport" carries an
\* IntOrString port of an invalid type, which json.Marshal rejects
RuleJSON(r) ==
  IF r = "dns" THEN "{\"ports\":[{\"port\":53}]}"
  ELSE IF r = "web" THEN "{\"ports\":[{\"port\":80}]}"
  ELSE "?"

RuleMarshals(r) == r # "badport"

RECURSIVE JoinJSON(_)
JoinJSON(q) ==
  IF q = <<>> THEN ""
  ELSE IF Len(q) = 1 THEN Head(q)
  ELSE Head(q) \o "," \o JoinJSON(Tail(q))

Quote(str) == "\"" \o str \o "\""

\* the JSON texts of the rules of an ingress or egress list
RulesJSON(q) == [i \in 1..Len(q) |-> RuleJSON(q[i])]

\* the JSON texts of the entries of a policyTypes list
TypesJSON(q) == [i \in 1..Len(q) |-> Quote(q[i])]

\* label keys in ascending order: encoding/json writes map keys sorted
LabelOrder == <<"app", "tier">>

RECURSIVE SortedLabels(_, _)
SortedLabels(keys, i) ==
  IF i > Len(LabelOrder) THEN <<>>
  ELSE (IF LabelOrder[i] \in keys THEN <<LabelOrder[i]>> ELSE <<>>)
         \o SortedLabels(keys, i + 1)

LabelJSON(k) == Quote(k) \o ":\"x\""

LabelsJSON(q) == [i \in 1..Len(q) |-> LabelJSON(q[i])]

\* metav1.LabelSelector: matchLabels is omitted when empty
SelectorJSON(sel) ==
  IF sel = {} THEN "{}"
  ELSE "{\"matchLabels\":{" \o JoinJSON(LabelsJSON(SortedLabels(sel, 1))) \o "}}"

\* a slice field tagged omitempty: left out when its length is 0, nil or not
OmitEmptyJSON(name, elemsJSON) ==
  IF Len(elemsJSON) = 0 THEN ""
  ELSE "," \o Quote(name) \o ":[" \o JoinJSON(elemsJSON) \o "]"

\* json.Marshal(np.Spec): the fields in declaration order, or an error
MarshalSpec(spec) ==
  IF \/ \E i \in 1..Len(spec.Ingress.elems) : ~RuleMarshals(spec.Ingress.elems[i])
     \/ \E j \in 1..Len(spec.Egress.elems) : ~RuleMarshals(spec.Egress.elems[j])
  THEN [err |-> TRUE, bytes |-> ""]
  ELSE [err |-> FALSE,
        bytes |-> "{\"podSelector\":" \o SelectorJSON(spec.PodSelector)
                    \o OmitEmptyJSON("ingress", RulesJSON(spec.Ingress.elems))
                    \o OmitEmptyJSON("egress", RulesJSON(spec.Egress.elems))
                    \o OmitEmptyJSON("policyTypes", TypesJSON(spec.PolicyTypes.elems))
                    \o "}"]

\* hex.EncodeToString(sha256.Sum256(bytes)): SHA-256 is taken to be free of
\* collisions, so the digest stands for the bytes it was computed from
Sha256Hex(bytes) == "sha256(" \o bytes \o ")"

NoDigest ==
  [Namespace |-> "", Name |-> "", SpecHash |-> "", PolicyTypes |-> NilSlice,
   IngressCount |-> 0, EgressCount |-> 0]

\* NewNetPolDigest that serializes the whole object instead of np.Spec
NewNetPolDigestWholeObject(np) ==
  LET m == MarshalSpec(np.Spec)
  IN IF m.err
     THEN [err |-> TRUE, digest |-> NoDigest]
     ELSE [err |-> FALSE,
           digest |-> [Namespace |-> np.Namespace,
                       Name |-> np.Name,
                       SpecHash |-> Sha256Hex("{\"metadata\":{\"name\":" \o Quote(np.Name)
                                                \o ",\"namespace\":" \o Quote(np.Namespace)
                                                \o ",\"resourceVersion\":"
                                                \o Quote(np.ResourceVersion)
                                                \o "},\"spec\":" \o m.bytes \o "}"),
                       PolicyTypes |-> np.Spec.PolicyTypes,
                       IngressCount |-> Len(np.Spec.Ingress.elems),
                       EgressCount |-> Len(np.Spec.Egress.elems)]]

NewNetPolDigest(np) ==
  LET m == MarshalSpec(np.Spec)
  IN IF m.err
     THEN [err |-> TRUE, digest |-> NoDigest]
     ELSE [err |-> FALSE,
           digest |-> [Namespace |-> np.Namespace,
                       Name |-> np.Name,
                       SpecHash |-> Sha256Hex(m.bytes),
                       PolicyTypes |-> np.Spec.PolicyTypes,
                       IngressCount |-> Len(np.Spec.Ingress.elems),
                       EgressCount |-> Len(np.Spec.Egress.elems)]]

\* ------------------------------------------------------------------ buildNetPolSnapshot
EmptyItems == [k \in {} |-> NoDigest]

\* a loop that keeps the digest a key already has
RECURSIVE BuildLoopKeepFirst(_, _)
BuildLoopKeepFirst(items, netpols) ==
  IF netpols = <<>> THEN [err |-> FALSE, Items |-> items]
  ELSE LET np == Head(netpols)
           d == NewNetPolDigest(np)
           key == np.Namespace \o "/" \o np.Name
       IN IF d.err
          THEN [err |-> TRUE, Items |-> EmptyItems]
          ELSE BuildLoopKeepFirst([k \in DOMAIN items \cup {key} |->
                                     IF k \in DOMAIN items THEN items[k] ELSE d.digest],
                                  Tail(netpols))

\* the loop `for _, np := range netpols`: the first digest error ends it and
\* no snapshot is returned
RECURSIVE BuildLoop(_, _)
BuildLoop(items, netpols) ==
  IF netpols = <<>> THEN [err |-> FALSE, Items |-> items]
  ELSE LET np == Head(netpols)
           d == NewNetPolDigest(np)
           key == np.Namespace \o "/" \o np.Name
       IN IF d.err
          THEN [err |-> TRUE, Items |-> EmptyItems]
          ELSE BuildLoop([k \in DOMAIN items \cup {key} |->
                            IF k = key THEN d.digest ELSE items[k]],
                         Tail(netpols))

buildNetPolSnapshot(netpols) == BuildLoop(EmptyItems, netpols)

\* ------------------------------------------------------------------ DiffNetworkPolicies
NetPolRef(ns, name) == [Namespace |-> ns, Name |-> name]

NetPolChange(ns, name, base, liveItem) ==
  [Namespace |-> ns, Name |-> name, Baseline |-> base, Live |-> liveItem]

\* a less function that compares names before namespaces
RefLessNameFirst(a, b) ==
  IF a.Name = b.Name THEN StrLess(a.Namespace, b.Namespace)
  ELSE StrLess(a.Name, b.Name)

\* the less function handed to sort.Slice
RefLess(a, b) ==
  IF a.Namespace = b.Namespace THEN StrLess(a.Name, b.Name)
  ELSE StrLess(a.Namespace, b.Namespace)

\* every result sort.Slice may leave: a rearrangement of `list` in which no
\* element is less than one before it (elements that compare equal in any order)
SortSlice(list) ==
  {p \in {[i \in 1..Len(list) |-> list[o[i]]] : o \in IterOrders(1..Len(list))} :
     \A i, j \in 1..Len(list) : i < j => ~RefLess(p[j], p[i])}

\* the key loop with `case okBase:` in place of `case okBase && !okLive:`
RECURSIVE KeyLoopBaselineFirst(_, _, _, _)
KeyLoopBaselineFirst(result, order, baseline, live) ==
  IF order = <<>> THEN result
  ELSE LET key == Head(order)
           okBase == key \in DOMAIN baseline
           okLive == key \in DOMAIN live
           next ==
             IF okBase
             THEN [result EXCEPT !.Missing =
                     Append(@, NetPolRef(baseline[key].Namespace, baseline[key].Name))]
             ELSE IF ~okBase /\ okLive
             THEN [result EXCEPT !.Extra =
                     Append(@, NetPolRef(live[key].Namespace, live[key].Name))]
             ELSE result
       IN KeyLoopBaselineFirst(next, Tail(order), baseline, live)

\* the key loop comparing the whole digests instead of their SpecHash
RECURSIVE KeyLoopDeepEqual(_, _, _, _)
KeyLoopDeepEqual(result, order, baseline, live) ==
  IF order = <<>> THEN result
  ELSE LET key == Head(order)
           okBase == key \in DOMAIN baseline
           okLive == key \in DOMAIN live
           next ==
             IF okBase /\ ~okLive
             THEN [result EXCEPT !.Missing =
                     Append(@, NetPolRef(baseline[key].Namespace, baseline[key].Name))]
             ELSE IF ~okBase /\ okLive
             THEN [result EXCEPT !.Extra =
                     Append(@, NetPolRef(live[key].Namespace, live[key].Name))]
             ELSE IF okBase /\ okLive /\ baseline[key] # live[key]
             THEN [result EXCEPT !.Changed =
                     Append(@, NetPolChange(baseline[key].Namespace, baseline[key].Name,
                                            baseline[key], live[key]))]
             ELSE result
       IN KeyLoopDeepEqual(next, Tail(order), baseline, live)

\* the loop `for key := range keys`, visiting the keys in `order`
RECURSIVE KeyLoop(_, _, _, _)
KeyLoop(result, order, baseline, live) ==
  IF order = <<>> THEN result
  ELSE LET key == Head(order)
           okBase == key \in DOMAIN baseline
           okLive == key \in DOMAIN live
           next ==
             IF okBase /\ ~okLive
             THEN [result EXCEPT !.Missing =
                     Append(@, NetPolRef(baseline[key].Namespace, baseline[key].Name))]
             ELSE IF ~okBase /\ okLive
             THEN [result EXCEPT !.Extra =
                     Append(@, NetPolRef(live[key].Namespace, live[key].Name))]
             ELSE IF okBase /\ okLive /\ baseline[key].SpecHash # live[key].SpecHash
             THEN [result EXCEPT !.Changed =
                     Append(@, NetPolChange(baseline[key].Namespace, baseline[key].Name,
                                            baseline[key], live[key]))]
             ELSE result
       IN KeyLoop(next, Tail(order), baseline, live)

NoNetPolDrift == [done |-> FALSE, Missing |-> <<>>, Extra |-> <<>>, Changed |-> <<>>]

\* the unsorted result of DiffNetworkPolicies for one iteration order of keys
DiffNetworkPoliciesLoop(baseline, live, order) ==
  KeyLoop([done |-> TRUE, Missing |-> <<>>, Extra |-> <<>>, Changed |-> <<>>],
          order, baseline, live)

\* the Items map of a snapshot once DiffNetworkPolicies has made its read
\* `snap.Items[key]` for every key of `keys`
RECURSIVE ItemsAfterDiffNetworkPolicies(_, _)
ItemsAfterDiffNetworkPolicies(items, keys) ==
  IF keys = {} THEN items
  ELSE LET key == CHOOSE k \in keys : TRUE
       IN ItemsAfterDiffNetworkPolicies(MapAfterRead(items, key, NoDigest), keys \ {key})

\* ------------------------------------------------------------------ NetworkPolicy inputs
PolicyRuleNames == {"dns", "badport"}

PolicyTypeLists == {NilSlice, Slice(<<>>), Slice(<<"Ingress">>)}

\* the specs NewNetPolDigest is called with
NetworkPolicySpecs ==
  {NetworkPolicySpec(sel, i, e, t) :
     sel \in {{}, {"app", "tier"}},
     i \in SlicesUpTo(PolicyRuleNames, MaxPolicyRules),
     e \in {NilSlice, Slice(<<"web">>)},
     t \in PolicyTypeLists}

\* object metadata: namespace, name, resourceVersion, labels
MetaPool ==
  { <<"ns1", "allow-dns", "1", {}>>,
    <<"ns1", "allow-dns", "2", {"team"}>>,
    <<"ns2", "deny-all", "1", {}>> }

DigestPolicies ==
  {NetworkPolicy(m[1], m[2], m[3], m[4], spec) : m \in MetaPool, spec \in NetworkPolicySpecs}

\* the policies the snapshots are built from: three keys, and per key a spec
\* with nothing set, one that differs from it only in empty-but-present
\* lists, one that differs from it only in the pod selector, one with a
\* rule, and one that cannot be serialized
SnapshotPolicies ==
  {NetworkPolicy(k[1], k[2], "1", {}, spec) :
     k \in {<<"ns1", "allow-dns">>, <<"ns1", "deny-all">>, <<"ns2", "allow-dns">>},
     spec \in {NetworkPolicySpec({}, NilSlice, NilSlice, NilSlice),
               NetworkPolicySpec({}, Slice(<<>>), NilSlice, Slice(<<>>)),
               NetworkPolicySpec({"app"}, NilSlice, NilSlice, NilSlice),
               NetworkPolicySpec({}, Slice(<<"dns">>), NilSlice, Slice(<<"Ingress">>)),
               NetworkPolicySpec({}, Slice(<<"badport">>), NilSlice, NilSlice)}}

PolicyLists == SeqsUpTo(SnapshotPolicies, MaxPolicies)

NotBuilt == [built |-> FALSE, err |-> FALSE, Items |-> EmptyItems]

\* ------------------------------------------------------------------ NetworkPolicy actions
BuildNetPolBaseline ==
  /\ ~netpolBaseline.built
  /\ \E netpols \in PolicyLists :
       LET r == buildNetPolSnapshot(netpols)
       IN netpolBaseline' = [built |-> TRUE, err |-> r.err, Items |-> r.Items]
  /\ UNCHANGED <<netpolLive, netpolDrift>>
  /\ UNCHANGED <<rbacVars, expVars, digVars, psaVars, buildVars, collectVars, rerunVars>>

\* the live snapshot is collected once the baseline was loaded without error
BuildNetPolLive ==
  /\ netpolBaseline.built /\ ~netpolBaseline.err
  /\ ~netpolLive.built
  /\ \E netpols \in PolicyLists :
       LET r == buildNetPolSnapshot(netpols)
       IN netpolLive' = [built |-> TRUE, err |-> r.err, Items |-> r.Items]
  /\ UNCHANGED <<netpolBaseline, netpolDrift>>
  /\ UNCHANGED <<rbacVars, expVars, digVars, psaVars, buildVars, collectVars, rerunVars>>

RunDiffNetworkPolicies ==
  /\ netpolBaseline.built /\ ~netpolBaseline.err
  /\ netpolLive.built /\ ~netpolLive.err
  /\ ~netpolDrift.done
  /\ \E order \in IterOrders(DOMAIN netpolBaseline.Items \cup DOMAIN netpolLive.Items) :
       LET r == DiffNetworkPoliciesLoop(netpolBaseline.Items, netpolLive.Items, order)
       IN \E missing \in SortSlice(r.Missing), extra \in SortSlice(r.Extra),
             changed \in SortSlice(r.Changed) :
            netpolDrift' = [done |-> TRUE, Missing |-> missing, Extra |-> extra,
                            Changed |-> changed]
  /\ LET keys == DOMAIN netpolBaseline.Items \cup DOMAIN netpolLive.Items
     IN /\ netpolBaseline' =
             [netpolBaseline EXCEPT !.Items = ItemsAfterDiffNetworkPolicies(@, keys)]
        /\ netpolLive' =
             [netpolLive EXCEPT !.Items = ItemsAfterDiffNetworkPolicies(@, keys)]
  /\ UNCHANGED <<rbacVars, expVars, digVars, psaVars, buildVars, collectVars, rerunVars>>

\* one call of buildNetPolSnapshot on the list buildInput
RunBuildNetPolSnapshot ==
  /\ ~buildOut.built
  /\ LET r == buildNetPolSnapshot(buildInput)
     IN buildOut' = [built |-> TRUE, err |-> r.err, Items |-> r.Items]
  /\ UNCHANGED buildInput
  /\ UNCHANGED <<rbacVars, expVars, netpolVars, digVars, psaVars, collectVars, rerunVars>>

NoDigestResult == [done |-> FALSE, err |-> FALSE, digest |-> NoDigest]

DigestA ==
  /\ ~digOutA.done
  /\ LET r == NewNetPolDigest(digInA)
     IN digOutA' = [done |-> TRUE, err |-> r.err, digest |-> r.digest]
  /\ UNCHANGED <<digInA, digInB, digOutB>>
  /\ UNCHANGED <<rbacVars, expVars, netpolVars, psaVars, buildVars, collectVars, rerunVars>>

DigestB ==
  /\ ~digOutB.done
  /\ LET r == NewNetPolDigest(digInB)
     IN digOutB' = [done |-> TRUE, err |-> r.err, digest |-> r.digest]
  /\ UNCHANGED <<digInA, digInB, digOutA>>
  /\ UNCHANGED <<rbacVars, expVars, netpolVars, psaVars, buildVars, collectVars, rerunVars>>

\* ------------------------------------------------------------------ buildRBACSnapshot
Role(ns, name, rules) == [Namespace |-> ns, Name |-> name, Rules |-> rules]

ClusterRole(name, rules) == [Name |-> name, Rules |-> rules]

RoleRef(kind, name) == [Kind |-> kind, Name |-> name]

Subject(kind, name, ns) == [Kind |-> kind, Name |-> name, Namespace |-> ns]

RoleBinding(ns, roleRef, subjects) ==
  [Namespace |-> ns, RoleRef |-> roleRef, Subjects |-> subjects]

ClusterRoleBinding(roleRef, subjects) == [RoleRef |-> roleRef, Subjects |-> subjects]

\* a conversion that gives every subject without a namespace the default one
SubjectKeyDefaultsAllKinds(subj, defaultNamespace) ==
  LET ns == IF subj.Namespace = "" THEN defaultNamespace ELSE subj.Namespace
  IN SubjectKey(subj.Kind, subj.Name, ns)

SubjectKeyFromRBACSubject(subj, defaultNamespace) ==
  LET ns == IF subj.Namespace = "" /\ subj.Kind = "ServiceAccount"
            THEN defaultNamespace ELSE subj.Namespace
  IN SubjectKey(subj.Kind, subj.Name, ns)

\* Go map read of a rules map: a missing key yields the nil rule list
RulesAt(byKey, key) == IF key \in DOMAIN byKey THEN byKey[key] ELSE <<>>

\* the loop `for _, r := range roles`: the rules of Roles with one key are
\* appended in list order
RECURSIVE RolesByKey(_)
RolesByKey(roleList) ==
  IF roleList = <<>> THEN [k \in {} |-> <<>>]
  ELSE LET byKey == RolesByKey(SubSeq(roleList, 1, Len(roleList) - 1))
           r == roleList[Len(roleList)]
           key == r.Namespace \o "/" \o r.Name
       IN [k \in DOMAIN byKey \cup {key} |->
             IF k = key THEN RulesAt(byKey, key) \o r.Rules ELSE byKey[k]]

\* the loop `for _, cr := range clusterRoles`
RECURSIVE ClusterRolesByName(_)
ClusterRolesByName(clusterRoleList) ==
  IF clusterRoleList = <<>> THEN [k \in {} |-> <<>>]
  ELSE LET byName == ClusterRolesByName(SubSeq(clusterRoleList, 1, Len(clusterRoleList) - 1))
           cr == clusterRoleList[Len(clusterRoleList)]
       IN [k \in DOMAIN byName \cup {cr.Name} |->
             IF k = cr.Name THEN RulesAt(byName, cr.Name) \o cr.Rules ELSE byName[k]]

\* the loops `for _, subj := range rb.Subjects` and `range crb.Subjects`: acc
\* holds the snapshot and the AddPermissions calls made so far, each call
\* with the kind and list position of the binding it is made for
RECURSIVE SubjectLoop(_, _, _, _, _, _)
SubjectLoop(acc, subjects, defaultNamespace, perms, via, index) ==
  IF subjects = <<>> THEN acc
  ELSE LET subjKey == SubjectKeyFromRBACSubject(Head(subjects), defaultNamespace)
           next == [Subjects |-> AddPermissions(acc.Subjects, subjKey, perms),
                    calls |-> Append(acc.calls, [via |-> via, index |-> index,
                                                 subj |-> subjKey, perms |-> perms])]
       IN SubjectLoop(next, Tail(subjects), defaultNamespace, perms, via, index)

\* a lookup that finds a Role by name in any namespace
RoleBindingRulesAnyNamespace(rb, roleList, clusterRoleList) ==
  CASE rb.RoleRef.Kind = "Role" ->
         LET named == {i \in DOMAIN roleList : roleList[i].Name = rb.RoleRef.Name}
         IN IF named = {} THEN <<>> ELSE roleList[CHOOSE i \in named : TRUE].Rules
    [] rb.RoleRef.Kind = "ClusterRole" ->
         RulesAt(ClusterRolesByName(clusterRoleList), rb.RoleRef.Name)
    [] OTHER -> <<>>

\* the rules a RoleBinding's roleRef resolves to; a kind that is neither
\* Role nor ClusterRole skips the binding, as an empty rule list does
RoleBindingRules(rb, roleList, clusterRoleList) ==
  CASE rb.RoleRef.Kind = "Role" ->
         RulesAt(RolesByKey(roleList), rb.Namespace \o "/" \o rb.RoleRef.Name)
    [] rb.RoleRef.Kind = "ClusterRole" ->
         RulesAt(ClusterRolesByName(clusterRoleList), rb.RoleRef.Name)
    [] OTHER -> <<>>

\* the loop `for _, rb := range roleBindings`, from position index on
RECURSIVE RoleBindingLoop(_, _, _, _, _)
RoleBindingLoop(acc, roleBindingList, index, roleList, clusterRoleList) ==
  IF index > Len(roleBindingList) THEN acc
  ELSE LET rb == roleBindingList[index]
           rules == RoleBindingRules(rb, roleList, clusterRoleList)
           perms == ExpandPolicyRulesToPermissions(rules, rb.Namespace, FALSE)
           next == IF Len(rules) = 0 \/ Len(perms) = 0 THEN acc
                   ELSE SubjectLoop(acc, rb.Subjects, rb.Namespace, perms, "RoleBinding", index)
       IN RoleBindingLoop(next, roleBindingList, index + 1, roleList, clusterRoleList)

\* a loop that registers the subjects of a binding whatever its role grants
RECURSIVE ClusterRoleBindingLoopNoSkip(_, _, _, _)
ClusterRoleBindingLoopNoSkip(acc, bindingList, index, clusterRoleList) ==
  IF index > Len(bindingList) THEN acc
  ELSE LET crb == bindingList[index]
           rules == RulesAt(ClusterRolesByName(clusterRoleList), crb.RoleRef.Name)
           perms == ExpandPolicyRulesToPermissions(rules, "", TRUE)
           keys == {SubjectKeyFromRBACSubject(crb.Subjects[i], "") : i \in DOMAIN crb.Subjects}
           registered == [acc EXCEPT !.Subjects =
                            [k \in DOMAIN acc.Subjects \cup keys |-> Lookup(acc.Subjects, k)]]
           next == SubjectLoop(registered, crb.Subjects, "", perms, "ClusterRoleBinding", index)
       IN ClusterRoleBindingLoopNoSkip(next, bindingList, index + 1, clusterRoleList)

\* the loop `for _, crb := range clusterRoleBindings`, from position index
\* on; the roleRef is looked up among the ClusterRoles by name, its kind unread
RECURSIVE ClusterRoleBindingLoop(_, _, _, _)
ClusterRoleBindingLoop(acc, bindingList, index, clusterRoleList) ==
  IF index > Len(bindingList) THEN acc
  ELSE LET crb == bindingList[index]
           rules == RulesAt(ClusterRolesByName(clusterRoleList), crb.RoleRef.Name)
           perms == ExpandPolicyRulesToPermissions(rules, "", TRUE)
           next == IF Len(rules) = 0 \/ Len(perms) = 0 THEN acc
                   ELSE SubjectLoop(acc, crb.Subjects, "", perms, "ClusterRoleBinding", index)
       IN ClusterRoleBindingLoop(next, bindingList, index + 1, clusterRoleList)

\* the snapshot buildRBACSnapshot returns, with the AddPermissions calls made
buildRBACSnapshot(roleList, clusterRoleList, roleBindingList, bindingList) ==
  ClusterRoleBindingLoop(
    RoleBindingLoop([Subjects |-> EmptySnapshot, calls |-> <<>>],
                    roleBindingList, 1, roleList, clusterRoleList),
    bindingList, 1, clusterRoleList)

\* ------------------------------------------------------------------ buildRBACSnapshot inputs
\* the objects carry Kubernetes names, which hold no "/".  Every Role and
\* ClusterRole is named "reader", so that a roleRef can meet a Role of
\* another namespace and a ClusterRole of the same name.
RolePool ==
  { Role("ns1", "reader", <<PolicyRule(<<"get">>, <<"">>, <<"pods">>, <<>>, <<>>)>>),
    Role("ns2", "reader", <<PolicyRule(<<"list">>, <<"">>, <<"secrets">>, <<>>, <<>>)>>),
    Role("ns1", "reader", <<>>) }

\* a ClusterRole with a resource rule and a non-resource rule, and one whose
\* only rule has no verb and expands to nothing
ClusterRolePool ==
  { ClusterRole("reader", <<PolicyRule(<<"watch">>, <<"">>, <<"nodes">>, <<>>, <<>>),
                            PolicyRule(<<"get">>, <<>>, <<>>, <<>>, <<"/healthz">>)>>),
    ClusterRole("reader", <<PolicyRule(<<>>, <<"">>, <<"pods">>, <<>>, <<>>)>>) }

\* RoleBindings of two namespaces to the Role and to the ClusterRole, for a
\* user and a service account without a namespace; one for a service
\* account with a namespace of its own; one whose roleRef has no kind
RoleBindingPool ==
  {RoleBinding(ns, RoleRef(kind, "reader"),
               <<Subject("User", "alice", ""), Subject("ServiceAccount", "builder", "")>>) :
     ns \in {"ns1", "ns2"}, kind \in {"Role", "ClusterRole"}}
  \cup {RoleBinding("ns2", RoleRef("ClusterRole", "reader"),
                    <<Subject("ServiceAccount", "builder", "ns1")>>),
        RoleBinding("ns1", RoleRef("", "reader"), <<Subject("User", "alice", "")>>)}

ClusterRoleBindingPool ==
  { ClusterRoleBinding(RoleRef("ClusterRole", "reader"),
                       <<Subject("User", "alice", ""), Subject("ServiceAccount", "builder", "")>>),
    ClusterRoleBinding(RoleRef("ClusterRole", "reader"), <<Subject("Group", "devs", "")>>) }

NoSnapshot == [built |-> FALSE, Subjects |-> EmptySnapshot, calls |-> <<>>]

\* one call of buildRBACSnapshot on the four input lists
RunBuildRBACSnapshot ==
  /\ ~snapshot.built
  /\ LET r == buildRBACSnapshot(inRoles, inClusterRoles, inRoleBindings, inClusterRoleBindings)
     IN snapshot' = [built |-> TRUE, Subjects |-> r.Subjects, calls |-> r.calls]
  /\ UNCHANGED <<inRoles, inClusterRoles, inRoleBindings, inClusterRoleBindings>>
  /\ UNCHANGED <<rbacVars, expVars, netpolVars, digVars, psaVars, buildVars, rerunVars>>

\* ------------------------------------------------------------------ Pod Security Admission
NamespacePSA(ns, enforce, audit, warn) ==
  [Namespace |-> ns, Enforce |-> enforce, Audit |-> audit, Warn |-> warn]

PSADriftEntry(ns, baseline, live, driftType) ==
  [Namespace |-> ns, Baseline |-> baseline, Live |-> live, DriftType |-> driftType]

\* a rank that places an unknown level above restricted
psaRankUnknownStrongest(level) ==
  CASE level = "privileged" -> 1
    [] level = "baseline" -> 2
    [] level = "restricted" -> 3
    [] OTHER -> 4

psaRank(level) ==
  CASE level = "privileged" -> 1
    [] level = "baseline" -> 2
    [] level = "restricted" -> 3
    [] OTHER -> 0

\* a classification that sends levels of equal rank to the Missing bucket
classifyPSADirectionEqualMissing(base, live) ==
  LET b == psaRank(base)
      l == psaRank(live)
  IN IF l < b THEN <<"extra", "weaker">>
     ELSE IF l > b THEN <<"missing", "stronger">>
     ELSE <<"missing", "different">>

\* the pair (direction, label)
classifyPSADirection(base, live) ==
  LET b == psaRank(base)
      l == psaRank(live)
  IN IF l < b THEN <<"extra", "weaker">>
     ELSE IF l > b THEN <<"missing", "stronger">>
     ELSE <<"extra", "different">>

\* the loops `for _, b := range baseline { bMap[b.Namespace] = b }`: a later
\* element replaces an earlier one of the same namespace
RECURSIVE PSAMap(_)
PSAMap(list) ==
  IF list = <<>> THEN [ns \in {} |-> {}]
  ELSE LET m == PSAMap(SubSeq(list, 1, Len(list) - 1))
           e == list[Len(list)]
       IN [ns \in DOMAIN m \cup {e.Namespace} |-> IF ns = e.Namespace THEN e ELSE m[ns]]

\* an iteration that compares the whole NamespacePSA values, not their Enforce fields
PSABaselineStepWholeStruct(acc, ns, bMap, lMap) ==
  LET b == bMap[ns]
  IN IF ns \notin DOMAIN lMap
     THEN [acc EXCEPT !.missing = Append(@, PSADriftEntry(ns, b.Enforce, "", "missing"))]
     ELSE LET l == lMap[ns]
          IN IF b # l
             THEN LET c == classifyPSADirection(b.Enforce, l.Enforce)
                      e == PSADriftEntry(ns, b.Enforce, l.Enforce, c[2])
                  IN CASE c[1] = "extra" -> [acc EXCEPT !.extra = Append(@, e)]
                       [] c[1] = "missing" -> [acc EXCEPT !.missing = Append(@, e)]
                       [] OTHER -> [acc EXCEPT !.extra = Append(@, e)]
             ELSE acc

\* one iteration of the baseline-driven loop on the buckets acc
PSABaselineStep(acc, ns, bMap, lMap) ==
  LET b == bMap[ns]
  IN IF ns \notin DOMAIN lMap
     THEN [acc EXCEPT !.missing = Append(@, PSADriftEntry(ns, b.Enforce, "", "missing"))]
     ELSE LET l == lMap[ns]
          IN IF b.Enforce # l.Enforce
             THEN LET c == classifyPSADirection(b.Enforce, l.Enforce)
                      e == PSADriftEntry(ns, b.Enforce, l.Enforce, c[2])
                  IN CASE c[1] = "extra" -> [acc EXCEPT !.extra = Append(@, e)]
                       [] c[1] = "missing" -> [acc EXCEPT !.missing = Append(@, e)]
                       [] OTHER -> [acc EXCEPT !.extra = Append(@, e)]
             ELSE acc

\* `for ns, b := range bMap`, the keys visited in the given order
RECURSIVE PSABaselineLoop(_, _, _, _)
PSABaselineLoop(acc, order, bMap, lMap) ==
  IF order = <<>> THEN acc
  ELSE PSABaselineLoop(PSABaselineStep(acc, Head(order), bMap, lMap), Tail(order), bMap, lMap)

\* a live-driven loop that reports the live level in the Baseline field
RECURSIVE PSALiveLoopWrongField(_, _, _, _)
PSALiveLoopWrongField(acc, order, bMap, lMap) ==
  IF order = <<>> THEN acc
  ELSE LET ns == Head(order)
           next == IF ns \notin DOMAIN bMap
                   THEN [acc EXCEPT !.extra =
                           Append(@, PSADriftEntry(ns, lMap[ns].Enforce, "", "extra"))]
                   ELSE acc
       IN PSALiveLoopWrongField(next, Tail(order), bMap, lMap)

\* a live-driven loop without the test `if _, ok := bMap[ns]; !ok`
RECURSIVE PSALiveLoopNoBaselineTest(_, _, _, _)
PSALiveLoopNoBaselineTest(acc, order, bMap, lMap) ==
  IF order = <<>> THEN acc
  ELSE LET ns == Head(order)
           next == [acc EXCEPT !.extra =
                      Append(@, PSADriftEntry(ns, "", lMap[ns].Enforce, "extra"))]
       IN PSALiveLoopNoBaselineTest(next, Tail(order), bMap, lMap)

\* `for ns, l := range lMap`, the keys visited in the given order
RECURSIVE PSALiveLoop(_, _, _, _)
PSALiveLoop(acc, order, bMap, lMap) ==
  IF order = <<>> THEN acc
  ELSE LET ns == Head(order)
           next == IF ns \notin DOMAIN bMap
                   THEN [acc EXCEPT !.extra =
                           Append(@, PSADriftEntry(ns, "", lMap[ns].Enforce, "extra"))]
                   ELSE acc
       IN PSALiveLoop(next, Tail(order), bMap, lMap)

\* sort.Slice with the comparison `list[i].Namespace < list[j].Namespace`:
\* every rearrangement of the list that the comparison leaves in order
SortByNamespace(list) ==
  {sorted \in [1..Len(list) -> Range(list)] :
     /\ \A e \in Range(list) :
          Cardinality({i \in 1..Len(list) : sorted[i] = e}) =
          Cardinality({i \in 1..Len(list) : list[i] = e})
     /\ \A i \in 1..Len(list) - 1 : ~StrLess(sorted[i + 1].Namespace, sorted[i].Namespace)}

\* DiffPSA: every result the call can return, over the iteration orders of
\* the two maps
DiffPSA(baseline, live) ==
  LET bMap == PSAMap(baseline)
      lMap == PSAMap(live)
  IN UNION {
       LET acc == PSALiveLoop(PSABaselineLoop([extra |-> <<>>, missing |-> <<>>],
                                              bOrder, bMap, lMap), lOrder, bMap, lMap)
       IN {[Extra |-> extra, Missing |-> missing] :
             extra \in SortByNamespace(acc.extra), missing \in SortByNamespace(acc.missing)}
       : bOrder \in IterOrders(DOMAIN bMap), lOrder \in IterOrders(DOMAIN lMap)}

\* ------------------------------------------------------------------ flat-list DiffPSA
\* `order[base]`, `order[live]`: a label that is no key of the map reads as 0
classifyPSADriftOrder(level) ==
  CASE level = "privileged" -> 1
    [] level = "baseline" -> 2
    [] level = "restricted" -> 3
    [] OTHER -> 0

classifyPSADrift(base, live) ==
  LET b == classifyPSADriftOrder(base)
      l == classifyPSADriftOrder(live)
  IN IF b = 0 \/ l = 0 THEN "different"
     ELSE IF l < b THEN "weaker"
     ELSE IF l > b THEN "stronger"
     ELSE "different"

\* `for ns, b := range bMap` of the flat-list DiffPSA, the keys visited in
\* the given order
RECURSIVE EntriesBaselineLoop(_, _, _, _)
EntriesBaselineLoop(entries, order, bMap, lMap) ==
  IF order = <<>> THEN entries
  ELSE LET ns == Head(order)
           b == bMap[ns]
           next == IF ns \notin DOMAIN lMap
                   THEN Append(entries, PSADriftEntry(ns, b.Enforce, "", "missing"))
                   ELSE IF b.Enforce # lMap[ns].Enforce
                        THEN Append(entries,
                               PSADriftEntry(ns, b.Enforce, lMap[ns].Enforce,
                                             classifyPSADrift(b.Enforce, lMap[ns].Enforce)))
                        ELSE entries
       IN EntriesBaselineLoop(next, Tail(order), bMap, lMap)

\* `for ns, l := range lMap` of the flat-list DiffPSA
RECURSIVE EntriesLiveLoop(_, _, _, _)
EntriesLiveLoop(entries, order, bMap, lMap) ==
  IF order = <<>> THEN entries
  ELSE LET ns == Head(order)
           next == IF ns \notin DOMAIN bMap
                   THEN Append(entries, PSADriftEntry(ns, "", lMap[ns].Enforce, "extra"))
                   ELSE entries
       IN EntriesLiveLoop(next, Tail(order), bMap, lMap)

\* the flat-list DiffPSA: every Entries list the call can return, over the
\* iteration orders of the two maps
DiffPSAEntries(baseline, live) ==
  LET bMap == PSAMap(baseline)
      lMap == PSAMap(live)
  IN UNION {
       SortByNamespace(EntriesLiveLoop(EntriesBaselineLoop(<<>>, bOrder, bMap, lMap),
                                       lOrder, bMap, lMap))
       : bOrder \in IterOrders(DOMAIN bMap), lOrder \in IterOrders(DOMAIN lMap)}

\* ------------------------------------------------------------------ Pod Security Admission inputs
\* the enforce labels of the inputs: the three known levels, the absent
\* label and two labels that are not PSA levels
PSALevelPool == <<"privileged", "baseline", "restricted", "", "custom", "other">>

PSANamespaces == <<"ns1", "ns2">>

\* the NamespacePSA values of the inputs, namespace by namespace
NamespacePool(levels) ==
  [i \in 1..(Len(PSANamespaces) * Len(levels)) |->
     NamespacePSA(PSANamespaces[((i - 1) \div Len(levels)) + 1],
                  levels[((i - 1) % Len(levels)) + 1], "", "")]

\* the collections of at most MaxNamespaces elements of the pool.  DiffPSA
\* reads its arguments only to fill bMap and lMap, so the collections are
\* enumerated in pool order; a namespace may occur more than once, and then
\* the last occurrence is the one the map keeps.
NamespaceLists(pool) ==
  UNION {{[i \in 1..n |-> pool[idx[i]]] :
            idx \in {f \in [1..n -> 1..Len(pool)] : \A i \in 1..n - 1 : f[i] <= f[i + 1]}} :
         n \in 0..MaxNamespaces}

PSALists == NamespaceLists(NamespacePool(PSALevelPool))

\* no namespace occurs twice in the collection
UniqueNamespaces(list) ==
  \A i, j \in 1..Len(list) : list[i].Namespace = list[j].Namespace => i = j

\* the collections a namespace listing yields: at most MaxNamespaces
\* elements in any order, no namespace twice
PSAUniqueLists ==
  {list \in SeqsUpTo(Range(NamespacePool(PSALevelPool)), MaxNamespaces) : UniqueNamespaces(list)}

\* the same elements in every order
Reordered(list) ==
  {[i \in 1..Len(list) |-> list[o[i]]] : o \in IterOrders(1..Len(list))}

\* the inputs of the runs that vary the audit and warn labels
PSALabelLists == NamespaceLists(NamespacePool(<<"baseline", "restricted">>))

\* the (audit, warn) labels a namespace may carry besides none
PSALabelPairs == {<<"", "">>, <<"restricted", "baseline">>}

\* the lists that differ from the given one in audit and warn labels only
Relabelled(list) ==
  {[i \in 1..Len(list) |-> [list[i] EXCEPT !.Audit = lab[i][1], !.Warn = lab[i][2]]] :
     lab \in [1..Len(list) -> PSALabelPairs]}

NoPSADrift == [done |-> FALSE, Extra |-> <<>>, Missing |-> <<>>]

NoPSAAlt == [done |-> FALSE, baseline |-> <<>>, live |-> <<>>, Extra |-> <<>>, Missing |-> <<>>]

NoPSAFlat == [done |-> FALSE, Entries |-> <<>>]

\* ------------------------------------------------------------------ Pod Security Admission actions
RunDiffPSA ==
  /\ ~psaDrift.done
  /\ \E r \in DiffPSA(psaBaseline, psaLive) :
       psaDrift' = [done |-> TRUE, Extra |-> r.Extra, Missing |-> r.Missing]
  /\ UNCHANGED <<psaBaseline, psaLive, psaAlt, psaFlat>>
  /\ UNCHANGED <<rbacVars, expVars, netpolVars, digVars, buildVars, collectVars, rerunVars>>

\* DiffPSA on the same namespaces and enforce labels, the audit and warn
\* labels set anew
RunDiffPSARelabelled ==
  /\ ~psaAlt.done
  /\ \E baseline \in Relabelled(psaBaseline), live \in Relabelled(psaLive) :
       \E r \in DiffPSA(baseline, live) :
         psaAlt' = [done |-> TRUE, baseline |-> baseline, live |-> live,
                    Extra |-> r.Extra, Missing |-> r.Missing]
  /\ UNCHANGED <<psaBaseline, psaLive, psaDrift, psaFlat>>
  /\ UNCHANGED <<rbacVars, expVars, netpolVars, digVars, buildVars, collectVars, rerunVars>>

\* DiffPSA on the same two collections, their elements in another order
RunDiffPSAReordered ==
  /\ ~psaAlt.done
  /\ \E baseline \in Reordered(psaBaseline), live \in Reordered(psaLive) :
       \E r \in DiffPSA(baseline, live) :
         psaAlt' = [done |-> TRUE, baseline |-> baseline, live |-> live,
                    Extra |-> r.Extra, Missing |-> r.Missing]
  /\ UNCHANGED <<psaBaseline, psaLive, psaDrift, psaFlat>>
  /\ UNCHANGED <<rbacVars, expVars, netpolVars, digVars, buildVars, collectVars, rerunVars>>

\* one call of the flat-list DiffPSA on the same arguments
RunDiffPSAEntries ==
  /\ ~psaFlat.done
  /\ \E entries \in DiffPSAEntries(psaBaseline, psaLive) :
       psaFlat' = [done |-> TRUE, Entries |-> entries]
  /\ UNCHANGED <<psaBaseline, psaLive, psaDrift, psaAlt>>
  /\ UNCHANGED <<rbacVars, expVars, netpolVars, digVars, buildVars, collectVars, rerunVars>>

\* ------------------------------------------------------------------ specifications
\* no expansion call in progress
ExpandIdle ==
  /\ expRules = <<>>
  /\ expNamespace = ""
  /\ expCluster = FALSE
  /\ expOut = [done |-> FALSE, perms |-> <<>>]

\* the RBAC snapshots stay empty
RBACIdle == RBACInit

\* no NetworkPolicy snapshot is built
NetPolIdle ==
  /\ netpolBaseline = NotBuilt
  /\ netpolLive = NotBuilt
  /\ netpolDrift = NoNetPolDrift

\* no digest call is made
DigestIdle ==
  /\ digInA = NetworkPolicy("", "", "", {}, NetworkPolicySpec({}, NilSlice, NilSlice, NilSlice))
  /\ digInB = digInA
  /\ digOutA = NoDigestResult
  /\ digOutB = NoDigestResult

\* two digest calls on policies drawn from the bounded input set
DigestInit ==
  /\ digInA \in DigestPolicies
  /\ digInB \in DigestPolicies
  /\ digOutA = NoDigestResult
  /\ digOutB = NoDigestResult

\* no PSA collection is compared
PSAIdle ==
  /\ psaBaseline = <<>>
  /\ psaLive = <<>>
  /\ psaDrift = NoPSADrift
  /\ psaAlt = NoPSAAlt
  /\ psaFlat = NoPSAFlat

\* DiffPSA arguments drawn from the bounded input set
PSAInit ==
  /\ psaBaseline \in PSALists
  /\ psaLive \in PSALists
  /\ psaDrift = NoPSADrift
  /\ psaAlt = NoPSAAlt
  /\ psaFlat = NoPSAFlat

\* DiffPSA arguments without a repeated namespace
PSAUniqueInit ==
  /\ psaBaseline \in PSAUniqueLists
  /\ psaLive \in PSAUniqueLists
  /\ psaDrift = NoPSADrift
  /\ psaAlt = NoPSAAlt
  /\ psaFlat = NoPSAFlat

\* DiffPSA arguments of the runs that vary the audit and warn labels
PSALabelInit ==
  /\ psaBaseline \in PSALabelLists
  /\ psaLive \in PSALabelLists
  /\ psaDrift = NoPSADrift
  /\ psaAlt = NoPSAAlt
  /\ psaFlat = NoPSAFlat

\* no buildNetPolSnapshot call is followed
BuildIdle ==
  /\ buildInput = <<>>
  /\ buildOut = NotBuilt

\* a buildNetPolSnapshot argument drawn from the bounded input set
BuildInit ==
  /\ buildInput \in PolicyLists
  /\ buildOut = NotBuilt

\* no buildRBACSnapshot call is followed
CollectIdle ==
  /\ inRoles = <<>>
  /\ inClusterRoles = <<>>
  /\ inRoleBindings = <<>>
  /\ inClusterRoleBindings = <<>>
  /\ snapshot = NoSnapshot

\* buildRBACSnapshot arguments drawn from the bounded input sets
CollectInit ==
  /\ inRoles \in SeqsUpTo(RolePool, MaxRoles)
  /\ inClusterRoles \in SeqsUpTo(ClusterRolePool, MaxClusterRoles)
  /\ inRoleBindings \in SeqsUpTo(RoleBindingPool, MaxRoleBindings)
  /\ inClusterRoleBindings \in SeqsUpTo(ClusterRoleBindingPool, MaxClusterRoleBindings)
  /\ snapshot = NoSnapshot

RBACNext ==
  \/ AddToBaseline
  \/ AddToLive
  \/ RunDiffRBAC
  \/ RunDiffRBACSwapped

InitRBAC == RBACInit /\ ExpandIdle /\ NetPolIdle /\ DigestIdle /\ PSAIdle /\ BuildIdle
  /\ CollectIdle

\* RBAC snapshot construction followed by the two diffs
SpecRBAC == InitRBAC /\ [][RBACNext]_vars

ExpandNext == RunExpand

InitExpand == ExpandInit /\ RBACIdle /\ NetPolIdle /\ DigestIdle /\ PSAIdle /\ BuildIdle
  /\ CollectIdle

\* one call of ExpandPolicyRulesToPermissions
SpecExpand == InitExpand /\ [][ExpandNext]_vars

NetPolNext ==
  \/ BuildNetPolBaseline
  \/ BuildNetPolLive
  \/ RunDiffNetworkPolicies

InitNetPol == NetPolIdle /\ RBACIdle /\ ExpandIdle /\ DigestIdle /\ PSAIdle /\ BuildIdle
  /\ CollectIdle

\* the two NetworkPolicy snapshots are built, then diffed
SpecNetPol == InitNetPol /\ [][NetPolNext]_vars

DigestNext ==
  \/ DigestA
  \/ DigestB

InitDigest == DigestInit /\ RBACIdle /\ ExpandIdle /\ NetPolIdle /\ PSAIdle /\ BuildIdle
  /\ CollectIdle

\* two calls of NewNetPolDigest
SpecDigest == InitDigest /\ [][DigestNext]_vars

PSANext == RunDiffPSA

InitPSA == PSAInit /\ RBACIdle /\ ExpandIdle /\ NetPolIdle /\ DigestIdle /\ BuildIdle
  /\ CollectIdle

\* one call of DiffPSA
SpecPSA == InitPSA /\ [][PSANext]_vars

PSALabelNext ==
  \/ RunDiffPSA
  \/ RunDiffPSARelabelled

InitPSALabel == PSALabelInit /\ RBACIdle /\ ExpandIdle /\ NetPolIdle /\ DigestIdle /\ BuildIdle
  /\ CollectIdle

\* DiffPSA on a pair of collections and on a relabelled pair
SpecPSALabel == InitPSALabel /\ [][PSALabelNext]_vars

\* DiffPSA on a pair of collections and on the same pair reordered
PSAOrderNext ==
  \/ RunDiffPSA
  \/ RunDiffPSAReordered

InitPSAOrder == PSAUniqueInit /\ RBACIdle /\ ExpandIdle /\ NetPolIdle /\ DigestIdle /\ BuildIdle
  /\ CollectIdle

SpecPSAOrder == InitPSAOrder /\ [][PSAOrderNext]_vars

\* the three differs, one kind of input per behaviour: the RBAC snapshots
\* are filled and diffed while no other input exists, and likewise the
\* NetworkPolicy snapshots and the PSA collections
DiffersRBAC == NetPolIdle /\ PSAIdle /\ RBACNext

DiffersNetPol == RBACIdle /\ PSAIdle /\ NetPolNext

DiffersPSA == RBACIdle /\ NetPolIdle /\ (RunDiffPSA \/ RunDiffPSAEntries)

DiffersNext ==
  \/ DiffersRBAC
  \/ DiffersNetPol
  \/ DiffersPSA

InitDiffers == PSALabelInit /\ RBACIdle /\ ExpandIdle /\ NetPolIdle /\ DigestIdle /\ BuildIdle
  /\ CollectIdle

SpecDiffers == InitDiffers /\ [][DiffersNext]_vars

\* both DiffPSA implementations on the same arguments
PSABothNext ==
  \/ RunDiffPSA
  \/ RunDiffPSAEntries

SpecPSABoth == InitPSA /\ [][PSABothNext]_vars

BuildNext == RunBuildNetPolSnapshot

InitBuild ==
  BuildInit /\ RBACIdle /\ ExpandIdle /\ NetPolIdle /\ DigestIdle /\ PSAIdle /\ CollectIdle

\* one call of buildNetPolSnapshot
SpecBuild == InitBuild /\ [][BuildNext]_vars

CollectNext == RunBuildRBACSnapshot

InitCollect ==
  CollectInit /\ RBACIdle /\ ExpandIdle /\ NetPolIdle /\ DigestIdle /\ PSAIdle /\ BuildIdle

\* one call of buildRBACSnapshot
SpecCollect == InitCollect /\ [][CollectNext]_vars

RerunNext ==
  \/ AddToBaseline
  \/ AddToLive
  \/ RunDiffRBAC
  \/ RunDiffRBACAgain

\* RBAC snapshot construction followed by two calls of DiffRBAC on the
\* same snapshots
SpecRerun == InitRBAC /\ [][RerunNext]_vars

\* ------------------------------------------------------------------ RBAC properties

\* C1: DiffRBAC(A,B).Extra and DiffRBAC(B,A).Missing have the same subject
\* keys and, per subject, the same set of permissions; likewise Missing of the
\* first against Extra of the second.
C1_Symmetry ==
  (rbacDrift.done /\ rbacDriftRev.done) =>
    /\ DOMAIN rbacDrift.Extra = DOMAIN rbacDriftRev.Missing
    /\ DOMAIN rbacDrift.Missing = DOMAIN rbacDriftRev.Extra
    /\ \A s \in DOMAIN rbacDrift.Extra :
         Range(rbacDrift.Extra[s]) = Range(rbacDriftRev.Missing[s])
    /\ \A s \in DOMAIN rbacDrift.Missing :
         Range(rbacDrift.Missing[s]) = Range(rbacDriftRev.Extra[s])

\* both diffs ran on snapshots that differ in both directions, and one list
\* came out in a different order on the two runs
C1_Witness ==
  /\ rbacDrift.done /\ rbacDriftRev.done
  /\ DOMAIN rbacDrift.Missing # {}
  /\ \E s \in DOMAIN rbacDrift.Extra :
       /\ s \in DOMAIN rbacDriftRev.Missing
       /\ rbacDrift.Extra[s] # rbacDriftRev.Missing[s]

\* C2: for every subject of either snapshot, Extra[s] lists exactly live[s]
\* minus baseline[s] and Missing[s] exactly baseline[s] minus live[s], each
\* permission once; a subject is a key only of a side whose difference is
\* non-empty, so no emitted list is empty and no other subject is a key.
C2_ExactDifference ==
  rbacDrift.done =>
    LET subjects == DOMAIN rbacBaseline \cup DOMAIN rbacLive
        e(s) == Lookup(rbacLive, s) \ Lookup(rbacBaseline, s)
        m(s) == Lookup(rbacBaseline, s) \ Lookup(rbacLive, s)
    IN /\ DOMAIN rbacDrift.Extra \subseteq subjects
       /\ DOMAIN rbacDrift.Missing \subseteq subjects
       /\ \A s \in subjects :
            /\ (s \in DOMAIN rbacDrift.Extra) <=> (e(s) # {})
            /\ (s \in DOMAIN rbacDrift.Missing) <=> (m(s) # {})
       /\ \A s \in DOMAIN rbacDrift.Extra :
            /\ Range(rbacDrift.Extra[s]) = e(s)
            /\ Len(rbacDrift.Extra[s]) = Cardinality(e(s))
            /\ Len(rbacDrift.Extra[s]) > 0
       /\ \A s \in DOMAIN rbacDrift.Missing :
            /\ Range(rbacDrift.Missing[s]) = m(s)
            /\ Len(rbacDrift.Missing[s]) = Cardinality(m(s))
            /\ Len(rbacDrift.Missing[s]) > 0

\* the diff ran on a subject that has a shared permission, an extra one and a
\* missing one, next to a subject with no difference at all
C2_Witness ==
  /\ rbacDrift.done
  /\ \E s \in DOMAIN rbacDrift.Extra \cap DOMAIN rbacDrift.Missing :
       Lookup(rbacLive, s) \cap Lookup(rbacBaseline, s) # {}
  /\ \E s \in DOMAIN rbacBaseline \cap DOMAIN rbacLive :
       s \notin DOMAIN rbacDrift.Extra \cup DOMAIN rbacDrift.Missing

\* C3: DiffRBAC of a snapshot against an equal snapshot has no key in Extra
\* and no key in Missing.
C3_SelfDiffEmpty ==
  (rbacDrift.done /\ rbacBaseline = rbacLive) =>
    /\ DOMAIN rbacDrift.Extra = {}
    /\ DOMAIN rbacDrift.Missing = {}

\* the diff ran on two equal snapshots that hold permissions
C3_Witness ==
  /\ rbacDrift.done
  /\ rbacBaseline = rbacLive
  /\ \E s \in DOMAIN rbacBaseline : Cardinality(rbacBaseline[s]) >= 1

\* C7: after any sequence of AddPermissions calls each subject's set is the
\* union of the lists added for it, and adding again a list whose permissions
\* were all added before (in particular the same list) changes nothing.
C7_UnionIdempotent ==
  /\ \A s \in SubjectKeys :
       /\ Lookup(rbacBaseline, s) = added.baseline[s]
       /\ Lookup(rbacLive, s) = added.live[s]
  /\ \A s \in SubjectKeys, perms \in PermLists :
       /\ Range(perms) \subseteq added.baseline[s] =>
            AddPermissions(rbacBaseline, s, perms) = rbacBaseline
       /\ Range(perms) \subseteq added.live[s] =>
            AddPermissions(rbacLive, s, perms) = rbacLive

\* one subject's set was grown by more than one call: it holds more
\* permissions than a single list can carry
C7_Witness ==
  \E s \in DOMAIN rbacBaseline : Cardinality(rbacBaseline[s]) > MaxPermLen

\* ------------------------------------------------------------------ expansion properties
DupFree(q) == \A i, j \in 1..Len(q) : q[i] = q[j] => i = j

AtLeastOne(n) == IF n = 0 THEN 1 ELSE n

\* the number of permissions one rule is to contribute
RuleCount(rule) ==
  IF Len(rule.NonResourceURLs) > 0
  THEN Len(rule.Verbs) * Len(rule.NonResourceURLs)
  ELSE Len(rule.Verbs) * AtLeastOne(Len(rule.APIGroups))
         * AtLeastOne(Len(rule.Resources)) * AtLeastOne(Len(rule.ResourceNames))

\* the number of permissions the rules before rule i are to contribute
RECURSIVE RuleOffset(_)
RuleOffset(i) ==
  IF i <= 1 THEN 0 ELSE RuleOffset(i - 1) + RuleCount(expRules[i - 1])

\* the part of the result that rule i is to account for
RuleSegment(i) ==
  SubSeq(expOut.perms, RuleOffset(i) + 1, RuleOffset(i) + RuleCount(expRules[i]))

OrDefault(list, default) == IF list = <<>> THEN {default} ELSE Range(list)

\* C4: a rule without nonResourceURLs and with duplicate-free lists
\* contributes |verbs| x max(1,|apiGroups|) x max(1,|resources|) x
\* max(1,|resourceNames|) pairwise distinct permissions, one per tuple of the
\* product with the defaults "", "" and "*" in place of empty lists; the
\* result for a rule list is the concatenation of the per-rule results.
C4_CartesianProduct ==
  expOut.done =>
    /\ Len(expOut.perms) = RuleOffset(Len(expRules) + 1)
    /\ \A i \in 1..Len(expRules) :
         RuleSegment(i) =
           ExpandPolicyRulesToPermissions(<<expRules[i]>>, expNamespace, expCluster)
    /\ \A i \in 1..Len(expRules) :
         LET r == expRules[i]
             seg == RuleSegment(i)
             scope == IF expCluster THEN "*" ELSE expNamespace
         IN (/\ r.NonResourceURLs = <<>>
             /\ DupFree(r.Verbs) /\ DupFree(r.APIGroups)
             /\ DupFree(r.Resources) /\ DupFree(r.ResourceNames)) =>
              /\ Len(seg) = RuleCount(r)
              /\ Cardinality(Range(seg)) = Len(seg)
              /\ Range(seg) =
                   {Permission(scope, g, res, n, v, "") :
                      v \in Range(r.Verbs),
                      g \in OrDefault(r.APIGroups, ""),
                      res \in OrDefault(r.Resources, ""),
                      n \in OrDefault(r.ResourceNames, "*")}

\* a rule with 2 verbs, 2 resources, 1 group and 1 resource name was expanded
\* into exactly 4 permissions
C4_Witness ==
  /\ expOut.done
  /\ Len(expRules) = 1
  /\ expRules[1].NonResourceURLs = <<>>
  /\ Len(expRules[1].Verbs) = 2 /\ DupFree(expRules[1].Verbs)
  /\ Len(expRules[1].Resources) = 2 /\ DupFree(expRules[1].Resources)
  /\ Len(expRules[1].APIGroups) = 1
  /\ Len(expRules[1].ResourceNames) = 1
  /\ Len(expOut.perms) = 4

\* C5: a rule with nonResourceURLs contributes exactly one permission per
\* (verb, URL) pair, with scopeNamespace "*", that verb and URL, and apiGroup,
\* resource and resourceName empty, whatever its other lists hold and
\* whatever bindingNamespace and clusterScope are.
C5_NonResourceURLs ==
  expOut.done =>
    \A i \in 1..Len(expRules) :
      LET r == expRules[i]
          seg == RuleSegment(i)
          nURLs == Len(r.NonResourceURLs)
      IN nURLs > 0 =>
           /\ Len(seg) = Len(r.Verbs) * nURLs
           /\ \A v \in 1..Len(r.Verbs), u \in 1..nURLs :
                seg[(v - 1) * nURLs + u] =
                  Permission("*", "", "", "", r.Verbs[v], r.NonResourceURLs[u])

\* a rule with two verbs, a URL, an apiGroup and a resource was expanded for a
\* namespaced RoleBinding
C5_Witness ==
  /\ expOut.done
  /\ ~expCluster /\ expNamespace = "ns1"
  /\ Len(expRules) = 1
  /\ Len(expRules[1].Verbs) = 2
  /\ expRules[1].NonResourceURLs = <<"/healthz">>
  /\ expRules[1].APIGroups # <<>> /\ expRules[1].Resources # <<>>
  /\ expRules[1].ResourceNames # <<>>
  /\ Len(expOut.perms) = 2

\* only the non-resource form is populated
URLForm(p) ==
  /\ p.NonResourceURL # ""
  /\ p.Resource = "" /\ p.APIGroup = "" /\ p.ResourceName = ""

\* only the resource form is populated (a core-group permission has an empty
\* apiGroup, so one non-empty field of the three is enough)
ResourceForm(p) ==
  /\ p.NonResourceURL = ""
  /\ (p.Resource # "" \/ p.APIGroup # "" \/ p.ResourceName # "")

\* C6: every permission produced by ExpandPolicyRulesToPermissions, for any
\* list of rules, has exactly one of the two forms populated: never both and
\* never neither.
C6_ExactlyOneForm ==
  expOut.done =>
    \A i \in 1..Len(expOut.perms) :
      URLForm(expOut.perms[i]) # ResourceForm(expOut.perms[i])

\* ------------------------------------------------------------------ NetworkPolicy properties
\* the "namespace/name" key an output entry refers to
EntryKey(e) == e.Namespace \o "/" \o e.Name

\* how many entries of `list` refer to `key`
Occurrences(list, key) ==
  Cardinality({i \in 1..Len(list) : EntryKey(list[i]) = key})

AllEntries == netpolDrift.Missing \o netpolDrift.Extra \o netpolDrift.Changed

\* C8: every key of either snapshot is in Missing exactly when it is in the
\* baseline only, in Extra exactly when it is in live only, in Changed exactly
\* when it is in both with different specHash, once each and so in at most
\* one list; no entry refers to any other key.
C8_OneBucketPerKey ==
  netpolDrift.done =>
    LET base == netpolBaseline.Items
        live == netpolLive.Items
        keys == DOMAIN base \cup DOMAIN live
    IN /\ \A key \in keys :
            /\ Occurrences(netpolDrift.Missing, key) =
                 (IF key \in DOMAIN base \ DOMAIN live THEN 1 ELSE 0)
            /\ Occurrences(netpolDrift.Extra, key) =
                 (IF key \in DOMAIN live \ DOMAIN base THEN 1 ELSE 0)
            /\ Occurrences(netpolDrift.Changed, key) =
                 (IF /\ key \in DOMAIN base \cap DOMAIN live
                     /\ base[key].SpecHash # live[key].SpecHash
                  THEN 1 ELSE 0)
            /\ Occurrences(AllEntries, key) <= 1
       /\ \A i \in 1..Len(AllEntries) : EntryKey(AllEntries[i]) \in keys

\* a diff that filled all three lists
C8_Witness ==
  /\ netpolDrift.done
  /\ Len(netpolDrift.Missing) > 0
  /\ Len(netpolDrift.Extra) > 0
  /\ Len(netpolDrift.Changed) > 0

\* C9: for a key of both snapshots only specHash decides: equal specHash puts
\* the key in no list whatever policyTypes and the counts are, different
\* specHash puts it in Changed whatever they are.
C9_SpecHashDecides ==
  netpolDrift.done =>
    \A key \in DOMAIN netpolBaseline.Items \cap DOMAIN netpolLive.Items :
      IF netpolBaseline.Items[key].SpecHash = netpolLive.Items[key].SpecHash
      THEN Occurrences(AllEntries, key) = 0
      ELSE /\ Occurrences(netpolDrift.Changed, key) = 1
           /\ \E i \in 1..Len(netpolDrift.Changed) :
                /\ EntryKey(netpolDrift.Changed[i]) = key
                /\ netpolDrift.Changed[i].Baseline = netpolBaseline.Items[key]
                /\ netpolDrift.Changed[i].Live = netpolLive.Items[key]

InfoFields(d) == <<d.PolicyTypes, d.IngressCount, d.EgressCount>>

\* a diff of two snapshots that share one key with equal specHash but
\* different policyTypes, and one key with different specHash but equal
\* policyTypes and counts
C9_Witness ==
  /\ netpolDrift.done
  /\ \E key \in DOMAIN netpolBaseline.Items \cap DOMAIN netpolLive.Items :
       /\ netpolBaseline.Items[key].SpecHash = netpolLive.Items[key].SpecHash
       /\ InfoFields(netpolBaseline.Items[key]) # InfoFields(netpolLive.Items[key])
  /\ \E key \in DOMAIN netpolBaseline.Items \cap DOMAIN netpolLive.Items :
       /\ netpolBaseline.Items[key].SpecHash # netpolLive.Items[key].SpecHash
       /\ InfoFields(netpolBaseline.Items[key]) = InfoFields(netpolLive.Items[key])
       /\ Occurrences(netpolDrift.Changed, key) = 1

\* C10: two policies with the same spec get the same outcome and the same
\* specHash from NewNetPolDigest whatever their metadata, and the same policy
\* digested twice gets the same digest.
C10_HashOfSpecOnly ==
  (digOutA.done /\ digOutB.done) =>
    /\ digInA.Spec = digInB.Spec =>
         /\ digOutA.err = digOutB.err
         /\ digOutA.digest.SpecHash = digOutB.digest.SpecHash
    /\ digInA = digInB => digOutA = digOutB

\* two policies with the same serializable spec and different namespace,
\* name, resourceVersion and labels were digested
C10_Witness ==
  /\ digOutA.done /\ digOutB.done
  /\ ~digOutA.err
  /\ digInA.Spec = digInB.Spec
  /\ digInA.Spec.Ingress.elems # <<>>
  /\ digInA.Namespace # digInB.Namespace
  /\ digInA.Name # digInB.Name
  /\ digInA.Labels # digInB.Labels
  /\ digOutA.digest.SpecHash # ""

\* ------------------------------------------------------------------ Pod Security Admission properties
\* the positions of a namespace in a list of NamespacePSA values or drift entries
Positions(list, ns) == {i \in DOMAIN list : list[i].Namespace = ns}

\* the namespaces of a list
NamespacesOf(list) == {list[i].Namespace : i \in DOMAIN list}

\* the restrictiveness order of the levels: privileged 1, baseline 2,
\* restricted 3, anything else 0
LevelRank(level) ==
  LET known == [privileged |-> 1, baseline |-> 2, restricted |-> 3]
  IN IF level \in DOMAIN known THEN known[level] ELSE 0

\* C11: for a namespace that occurs once in each collection with different
\* enforce labels, the entry carries both labels; when the live label ranks
\* below the baseline label the entry is in Extra with drift type "weaker",
\* when it ranks above the entry is in Missing with drift type "stronger",
\* and the other bucket has no entry for the namespace.
C11_RankDirection ==
  psaDrift.done =>
    \A i \in DOMAIN psaBaseline, j \in DOMAIN psaLive :
      LET b == psaBaseline[i]
          l == psaLive[j]
          ns == b.Namespace
      IN (/\ l.Namespace = ns
          /\ Positions(psaBaseline, ns) = {i}
          /\ Positions(psaLive, ns) = {j}
          /\ b.Enforce # l.Enforce) =>
           /\ LevelRank(l.Enforce) < LevelRank(b.Enforce) =>
                /\ PSADriftEntry(ns, b.Enforce, l.Enforce, "weaker") \in Range(psaDrift.Extra)
                /\ Positions(psaDrift.Missing, ns) = {}
           /\ LevelRank(l.Enforce) > LevelRank(b.Enforce) =>
                /\ PSADriftEntry(ns, b.Enforce, l.Enforce, "stronger") \in Range(psaDrift.Missing)
                /\ Positions(psaDrift.Extra, ns) = {}

\* a run that reports restricted -> baseline and restricted -> no label as
\* weaker, and one that reports no label -> privileged as stronger
C11_Witness ==
  /\ psaDrift.done
  /\ \/ /\ PSADriftEntry("ns1", "restricted", "baseline", "weaker") \in Range(psaDrift.Extra)
        /\ PSADriftEntry("ns2", "restricted", "", "weaker") \in Range(psaDrift.Extra)
     \/ /\ PSADriftEntry("ns1", "", "privileged", "stronger") \in Range(psaDrift.Missing)
        /\ PSADriftEntry("ns2", "custom", "baseline", "stronger") \in Range(psaDrift.Missing)

\* C12: for a namespace that occurs once in each collection with different
\* enforce labels of the same rank, the entry has drift type "different" and
\* is in Extra; Missing has no entry for the namespace.
C12_SameRankDifferent ==
  psaDrift.done =>
    \A i \in DOMAIN psaBaseline, j \in DOMAIN psaLive :
      LET b == psaBaseline[i]
          l == psaLive[j]
          ns == b.Namespace
      IN (/\ l.Namespace = ns
          /\ Positions(psaBaseline, ns) = {i}
          /\ Positions(psaLive, ns) = {j}
          /\ b.Enforce # l.Enforce
          /\ LevelRank(l.Enforce) = LevelRank(b.Enforce)) =>
           /\ PSADriftEntry(ns, b.Enforce, l.Enforce, "different") \in Range(psaDrift.Extra)
           /\ Positions(psaDrift.Missing, ns) = {}

\* a run on two unknown labels and on an unknown label against no label
C12_Witness ==
  /\ psaDrift.done
  /\ psaDrift.Extra = <<PSADriftEntry("ns1", "custom", "other", "different"),
                        PSADriftEntry("ns2", "", "custom", "different")>>
  /\ psaDrift.Missing = <<>>

\* C13: a namespace of the baseline collection that the live collection
\* lacks has exactly one entry, in Missing, with drift type "missing", its
\* baseline enforce label and an empty live label; a namespace of the live
\* collection that the baseline lacks has exactly one entry, in Extra, with
\* drift type "extra", its live enforce label and an empty baseline label.
C13_OneSided ==
  psaDrift.done =>
    /\ \A ns \in NamespacesOf(psaBaseline) \ NamespacesOf(psaLive) :
         /\ Positions(psaDrift.Extra, ns) = {}
         /\ Cardinality(Positions(psaDrift.Missing, ns)) = 1
         /\ \A k \in Positions(psaDrift.Missing, ns) :
              /\ psaDrift.Missing[k].DriftType = "missing"
              /\ psaDrift.Missing[k].Live = ""
              /\ \E i \in Positions(psaBaseline, ns) :
                   psaDrift.Missing[k].Baseline = psaBaseline[i].Enforce
    /\ \A ns \in NamespacesOf(psaLive) \ NamespacesOf(psaBaseline) :
         /\ Positions(psaDrift.Missing, ns) = {}
         /\ Cardinality(Positions(psaDrift.Extra, ns)) = 1
         /\ \A k \in Positions(psaDrift.Extra, ns) :
              /\ psaDrift.Extra[k].DriftType = "extra"
              /\ psaDrift.Extra[k].Baseline = ""
              /\ \E j \in Positions(psaLive, ns) :
                   psaDrift.Extra[k].Live = psaLive[j].Enforce

\* a run on a restricted namespace only in the baseline and a privileged
\* namespace only in live
C13_Witness ==
  /\ psaDrift.done
  /\ NamespacesOf(psaBaseline) = {"ns1"}
  /\ NamespacesOf(psaLive) = {"ns2"}
  /\ psaDrift.Missing = <<PSADriftEntry("ns1", "restricted", "", "missing")>>
  /\ psaDrift.Extra = <<PSADriftEntry("ns2", "", "privileged", "extra")>>

\* the two lists agree in length and, element by element, in namespace and
\* enforce label
SameEnforce(a, b) ==
  /\ Len(a) = Len(b)
  /\ \A i \in DOMAIN a : a[i].Namespace = b[i].Namespace /\ a[i].Enforce = b[i].Enforce

\* C20: two pairs of collections that differ in audit and warn labels only
\* give the same DiffPSA result, and a namespace that occurs once in each
\* collection with equal enforce labels has no entry in either bucket,
\* whatever its audit and warn labels.
C20_EnforceOnly ==
  psaAlt.done =>
    /\ (/\ psaDrift.done
        /\ SameEnforce(psaBaseline, psaAlt.baseline)
        /\ SameEnforce(psaLive, psaAlt.live)) =>
         (psaAlt.Extra = psaDrift.Extra /\ psaAlt.Missing = psaDrift.Missing)
    /\ \A i \in DOMAIN psaAlt.baseline, j \in DOMAIN psaAlt.live :
         LET b == psaAlt.baseline[i]
             l == psaAlt.live[j]
             ns == b.Namespace
         IN (/\ l.Namespace = ns
             /\ Positions(psaAlt.baseline, ns) = {i}
             /\ Positions(psaAlt.live, ns) = {j}
             /\ b.Enforce = l.Enforce) =>
              (Positions(psaAlt.Extra, ns) = {} /\ Positions(psaAlt.Missing, ns) = {})

\* both runs are done on pairs that differ in audit and warn labels; one
\* namespace has equal enforce labels and different audit and warn labels
\* on the two sides, the other has drifted
C20_Witness ==
  /\ psaDrift.done /\ psaAlt.done
  /\ psaAlt.baseline # psaBaseline
  /\ psaDrift.Extra # <<>>
  /\ \E i \in DOMAIN psaAlt.baseline, j \in DOMAIN psaAlt.live :
       /\ psaAlt.baseline[i].Namespace = psaAlt.live[j].Namespace
       /\ psaAlt.baseline[i].Enforce = psaAlt.live[j].Enforce
       /\ psaAlt.baseline[i].Audit # psaAlt.live[j].Audit
       /\ psaAlt.baseline[i].Warn # psaAlt.live[j].Warn

\* ------------------------------------------------------------------ ordering properties
\* the list ascends by namespace and, within a namespace, by name
AscendingByNamespaceThenName(list) ==
  \A i, j \in DOMAIN list :
    i < j =>
      \/ StrLess(list[i].Namespace, list[j].Namespace)
      \/ /\ list[i].Namespace = list[j].Namespace
         /\ (StrLess(list[i].Name, list[j].Name) \/ list[i].Name = list[j].Name)

\* C19: each of the Missing, Extra and Changed lists of DiffNetworkPolicies
\* is sorted ascending by namespace, then by name.
C19_SortedLists ==
  netpolDrift.done =>
    /\ AscendingByNamespaceThenName(netpolDrift.Missing)
    /\ AscendingByNamespaceThenName(netpolDrift.Extra)
    /\ AscendingByNamespaceThenName(netpolDrift.Changed)

\* a result with two entries in one list whose names descend while their
\* namespaces ascend
C19_Witness ==
  /\ netpolDrift.done
  /\ \E list \in {netpolDrift.Missing, netpolDrift.Extra, netpolDrift.Changed} :
       /\ Len(list) = 2
       /\ list[1].Namespace = "ns1" /\ list[1].Name = "deny-all"
       /\ list[2].Namespace = "ns2" /\ list[2].Name = "allow-dns"

\* ------------------------------------------------------------------ buildNetPolSnapshot properties
\* the Items key of a policy
PolicyKey(np) == np.Namespace \o "/" \o np.Name

\* some policy of the input list cannot be digested
SomeDigestFails == \E i \in DOMAIN buildInput : NewNetPolDigest(buildInput[i]).err

\* the last position of the input list that has the key
LastWithKey(key) ==
  CHOOSE i \in DOMAIN buildInput :
    /\ PolicyKey(buildInput[i]) = key
    /\ \A j \in DOMAIN buildInput : PolicyKey(buildInput[j]) = key => j <= i

\* C16 as stated: a digest failure of any input policy is returned with no
\* snapshot; otherwise the keys of the snapshot are exactly the
\* "namespace/name" keys of the input policies and every input policy's key
\* is mapped to that policy's digest.
C16_EveryPolicyDigest ==
  buildOut.built =>
    /\ SomeDigestFails => (buildOut.err /\ buildOut.Items = EmptyItems)
    /\ ~SomeDigestFails =>
         /\ ~buildOut.err
         /\ DOMAIN buildOut.Items = {PolicyKey(buildInput[i]) : i \in DOMAIN buildInput}
         /\ \A i \in DOMAIN buildInput :
              buildOut.Items[PolicyKey(buildInput[i])] = NewNetPolDigest(buildInput[i]).digest

\* C16 amended: a digest failure of any input policy is returned with no
\* snapshot; otherwise the keys of the snapshot are exactly the
\* "namespace/name" keys of the input policies and every key is mapped to the
\* digest of the last input policy that has the key.
C16_LastPolicyDigest ==
  buildOut.built =>
    /\ SomeDigestFails => (buildOut.err /\ buildOut.Items = EmptyItems)
    /\ ~SomeDigestFails =>
         /\ ~buildOut.err
         /\ DOMAIN buildOut.Items = {PolicyKey(buildInput[i]) : i \in DOMAIN buildInput}
         /\ \A key \in DOMAIN buildOut.Items :
              buildOut.Items[key] = NewNetPolDigest(buildInput[LastWithKey(key)]).digest

\* a snapshot built from two policies of one key and different specs
C16_Witness ==
  /\ buildOut.built /\ ~buildOut.err
  /\ Len(buildInput) = 2
  /\ PolicyKey(buildInput[1]) = PolicyKey(buildInput[2])
  /\ NewNetPolDigest(buildInput[1]).digest # NewNetPolDigest(buildInput[2]).digest
  /\ DOMAIN buildOut.Items = {"ns1/deny-all"}

\* ------------------------------------------------------------------ buildRBACSnapshot properties
\* the AddPermissions calls made for the binding of the given kind and position
CallsFor(via, index) ==
  {c \in DOMAIN snapshot.calls :
     snapshot.calls[c].via = via /\ snapshot.calls[c].index = index}

\* the Roles a RoleBinding's roleRef names: those of its namespace and of
\* the referenced name when the kind is Role
ReferencedRoles(rb) ==
  {i \in DOMAIN inRoles :
     /\ rb.RoleRef.Kind = "Role"
     /\ inRoles[i].Namespace = rb.Namespace
     /\ inRoles[i].Name = rb.RoleRef.Name}

\* the ClusterRoles of the referenced name
ReferencedClusterRoles(roleRef) ==
  {i \in DOMAIN inClusterRoles :
     roleRef.Kind = "ClusterRole" /\ inClusterRoles[i].Name = roleRef.Name}

\* the referenced role is not found or has an empty rule list
RoleBindingUnresolved(rb) ==
  /\ \A i \in ReferencedRoles(rb) : inRoles[i].Rules = <<>>
  /\ \A i \in ReferencedClusterRoles(rb.RoleRef) : inClusterRoles[i].Rules = <<>>

ClusterRoleBindingUnresolved(crb) ==
  \A i \in ReferencedClusterRoles(crb.RoleRef) : inClusterRoles[i].Rules = <<>>

\* the key a listed subject is filed under: a service account without a
\* namespace takes the binding's, every other subject keeps its own
ListedKey(subj, bindingNamespace) ==
  IF subj.Kind = "ServiceAccount" /\ subj.Namespace = ""
  THEN SubjectKey(subj.Kind, subj.Name, bindingNamespace)
  ELSE SubjectKey(subj.Kind, subj.Name, subj.Namespace)

\* the RoleBindings and ClusterRoleBindings that list the subject key
RoleBindingsListing(key) ==
  {i \in DOMAIN inRoleBindings :
     \E j \in DOMAIN inRoleBindings[i].Subjects :
       ListedKey(inRoleBindings[i].Subjects[j], inRoleBindings[i].Namespace) = key}

ClusterRoleBindingsListing(key) ==
  {i \in DOMAIN inClusterRoleBindings :
     \E j \in DOMAIN inClusterRoleBindings[i].Subjects :
       ListedKey(inClusterRoleBindings[i].Subjects[j], "") = key}

\* every subject key some binding lists
ListedKeys ==
  {key \in {ListedKey(s, ns) :
              s \in UNION ({Range(inRoleBindings[i].Subjects) : i \in DOMAIN inRoleBindings}
                           \cup {Range(inClusterRoleBindings[i].Subjects) :
                                   i \in DOMAIN inClusterRoleBindings}),
              ns \in {"", "ns1", "ns2"}} :
     RoleBindingsListing(key) \cup ClusterRoleBindingsListing(key) # {}}

\* C15: a RoleBinding or ClusterRoleBinding whose referenced role is not
\* found or has an empty rule list leads to no AddPermissions call, and a
\* subject that only such bindings list is not a key of the snapshot.
C15_UnresolvedContributesNothing ==
  snapshot.built =>
    /\ \A i \in DOMAIN inRoleBindings :
         RoleBindingUnresolved(inRoleBindings[i]) => CallsFor("RoleBinding", i) = {}
    /\ \A i \in DOMAIN inClusterRoleBindings :
         ClusterRoleBindingUnresolved(inClusterRoleBindings[i]) =>
           CallsFor("ClusterRoleBinding", i) = {}
    /\ \A key \in ListedKeys :
         (/\ \A i \in RoleBindingsListing(key) : RoleBindingUnresolved(inRoleBindings[i])
          /\ \A i \in ClusterRoleBindingsListing(key) :
               ClusterRoleBindingUnresolved(inClusterRoleBindings[i])) =>
           key \notin DOMAIN snapshot.Subjects

\* a snapshot with a key, built from lists in which a RoleBinding names a
\* Role that is absent, a ClusterRoleBinding names a ClusterRole that is
\* absent, and the group only the latter lists is no key
C15_Witness ==
  /\ snapshot.built
  /\ DOMAIN snapshot.Subjects # {}
  /\ inClusterRoles = <<>>
  /\ \E i \in DOMAIN inRoleBindings :
       /\ inRoleBindings[i].RoleRef.Kind = "ClusterRole"
       /\ RoleBindingUnresolved(inRoleBindings[i])
  /\ \E i \in DOMAIN inClusterRoleBindings :
       /\ ClusterRoleBindingUnresolved(inClusterRoleBindings[i])
       /\ SubjectKey("Group", "devs", "") \in ListedKeys
  /\ SubjectKey("Group", "devs", "") \notin DOMAIN snapshot.Subjects

RoleBindingGrant(rb) ==
  UNION ({Range(ExpandPolicyRulesToPermissions(inRoles[i].Rules, rb.Namespace, FALSE)) :
            i \in ReferencedRoles(rb)}
         \cup {Range(ExpandPolicyRulesToPermissions(inClusterRoles[i].Rules,
                                                    rb.Namespace, FALSE)) :
                 i \in ReferencedClusterRoles(rb.RoleRef)})

\* the permissions expanded for one ClusterRoleBinding
ClusterRoleBindingGrant(crb) ==
  UNION {Range(ExpandPolicyRulesToPermissions(inClusterRoles[i].Rules, "", TRUE)) :
           i \in ReferencedClusterRoles(crb.RoleRef)}

\* the union of the grants of every binding that lists the subject key
GrantedTo(key) ==
  UNION ({RoleBindingGrant(inRoleBindings[i]) : i \in RoleBindingsListing(key)}
         \cup {ClusterRoleBindingGrant(inClusterRoleBindings[i]) :
                 i \in ClusterRoleBindingsListing(key)})

\* C18: the keys of the snapshot are the listed subject keys that some
\* binding grants a permission, and the set of each is the union, over the
\* RoleBindings and ClusterRoleBindings that list it, of the permissions
\* expanded for the binding.  A service account listed without a namespace
\* is filed under the RoleBinding's namespace; a user or group is filed
\* under the namespace its subject entry carries.
C18_UnionOverBindings ==
  snapshot.built =>
    /\ DOMAIN snapshot.Subjects = {key \in ListedKeys : GrantedTo(key) # {}}
    /\ \A key \in DOMAIN snapshot.Subjects : snapshot.Subjects[key] = GrantedTo(key)

\* a snapshot in which the user has the permissions of a RoleBinding and of
\* a ClusterRoleBinding, and the service account listed without a namespace
\* has one key in ns1 from the RoleBinding and one without namespace from
\* the ClusterRoleBinding
C18_Witness ==
  /\ snapshot.built
  /\ DOMAIN snapshot.Subjects =
       { SubjectKey("User", "alice", ""),
         SubjectKey("ServiceAccount", "builder", "ns1"),
         SubjectKey("ServiceAccount", "builder", "") }
  /\ snapshot.Subjects[SubjectKey("User", "alice", "")] =
       { Permission("ns1", "", "pods", "*", "get", ""),
         Permission("*", "", "nodes", "*", "watch", ""),
         Permission("*", "", "", "", "get", "/healthz") }
  /\ snapshot.Subjects[SubjectKey("ServiceAccount", "builder", "ns1")] =
       { Permission("ns1", "", "pods", "*", "get", "") }

\* ------------------------------------------------------------------ repeated runs
\* C14, for DiffRBAC: two calls on the same two snapshots return identical
\* results, the order inside the per-subject Permission lists included.
C14_RerunIdentical ==
  (rbacDrift.done /\ rbacDriftAgain.done) => rbacDriftAgain = rbacDrift

\* ------------------------------------------------------------------ snapshot shape
\* every key of the snapshot has a permission
NoEmptySet(snap) == \A s \in DOMAIN snap : snap[s] # {}

\* a call for subj leaves every other key, present or absent, as it was
OthersKept(before, after, subj) ==
  \A k \in (DOMAIN before \cup DOMAIN after) \ {subj} :
    k \in DOMAIN before /\ k \in DOMAIN after /\ after[k] = before[k]

\* C23: in every snapshot a sequence of AddPermissions calls builds from the
\* empty one, and in the snapshot buildRBACSnapshot returns, every key maps
\* to a non-empty set; a call with the empty list returns the snapshot as it
\* is, a new subject included, and a call for one subject leaves the keys and
\* sets of all other subjects as they were.
C23_NoEmptyEntry ==
  /\ NoEmptySet(rbacBaseline) /\ NoEmptySet(rbacLive) /\ NoEmptySet(snapshot.Subjects)
  /\ \A subj \in SubjectKeys :
       /\ AddPermissions(rbacBaseline, subj, <<>>) = rbacBaseline
       /\ AddPermissions(rbacLive, subj, <<>>) = rbacLive
       /\ \A perms \in PermLists :
            /\ OthersKept(rbacBaseline, AddPermissions(rbacBaseline, subj, perms), subj)
            /\ OthersKept(rbacLive, AddPermissions(rbacLive, subj, perms), subj)

\* a snapshot with one subject as key and the other not: a call with the
\* empty list for the absent one would have to create its entry
C23_Witness ==
  /\ DOMAIN rbacBaseline = {SubjectKey("User", "alice", "")}
  /\ Cardinality(rbacBaseline[SubjectKey("User", "alice", "")]) = 2
  /\ DOMAIN rbacLive = SubjectKeys

\* ------------------------------------------------------------------ the two DiffPSA implementations
\* C24: on arguments with unique namespace names the entries of the
\* flat-list DiffPSA are, field by field, the entries of the Extra and
\* Missing lists of the bucketed DiffPSA taken together.
C24_SameEntries ==
  (psaDrift.done /\ psaFlat.done /\ UniqueNamespaces(psaBaseline) /\ UniqueNamespaces(psaLive))
    => /\ Range(psaFlat.Entries) = Range(psaDrift.Extra) \cup Range(psaDrift.Missing)
       /\ Len(psaFlat.Entries) = Len(psaDrift.Extra) + Len(psaDrift.Missing)

\* ------------------------------------------------------------------ bucketed DiffPSA, entry by entry
\* the number of entries the list has for the namespace
EntryCount(list, ns) == Cardinality({i \in 1..Len(list) : list[i].Namespace = ns})

\* the enforce labels the collection carries for the namespace
EnforceOf(list, ns) == {list[i].Enforce : i \in {j \in 1..Len(list) : list[j].Namespace = ns}}

\* the namespace is in exactly one collection, or in both with different
\* enforce labels
Drifted(ns) ==
  \/ (EnforceOf(psaBaseline, ns) = {}) # (EnforceOf(psaLive, ns) = {})
  \/ /\ EnforceOf(psaBaseline, ns) # {}
     /\ EnforceOf(psaLive, ns) # {}
     /\ EnforceOf(psaBaseline, ns) # EnforceOf(psaLive, ns)

\* C22: with unique namespace names in each collection, a namespace that is
\* in exactly one collection or in both with different enforce labels has
\* exactly one entry in Extra and Missing together, every other namespace
\* has none, and DiffPSA on the same collections in another order returns
\* the same two lists.
C22_OneEntryAnyOrder ==
  (UniqueNamespaces(psaBaseline) /\ UniqueNamespaces(psaLive))
    => /\ psaDrift.done =>
            \A ns \in Range(PSANamespaces) :
              EntryCount(psaDrift.Extra, ns) + EntryCount(psaDrift.Missing, ns) =
                IF Drifted(ns) THEN 1 ELSE 0
       /\ (psaDrift.done /\ psaAlt.done) =>
            /\ psaAlt.Extra = psaDrift.Extra
            /\ psaAlt.Missing = psaDrift.Missing

\* both runs done on two-element collections, each given to the second run
\* in the other order; one namespace drifted, the other not
C22_Witness ==
  /\ psaDrift.done /\ psaAlt.done
  /\ Len(psaBaseline) = 2 /\ Len(psaLive) = 2
  /\ UniqueNamespaces(psaBaseline) /\ UniqueNamespaces(psaLive)
  /\ psaAlt.baseline # psaBaseline /\ psaAlt.live # psaLive
  /\ Len(psaDrift.Extra) + Len(psaDrift.Missing) = 1

\* ------------------------------------------------------------------ the differs' inputs
\* a step in which a differ returns its result
DifferReturns ==
  \/ rbacDrift' # rbacDrift
  \/ rbacDriftRev' # rbacDriftRev
  \/ netpolDrift' # netpolDrift
  \/ psaDrift' # psaDrift
  \/ psaFlat' # psaFlat

\* C21: a call of DiffRBAC, DiffNetworkPolicies or DiffPSA leaves its two
\* inputs as they were: the same subject keys with the same permission
\* sets, the same NetPolSnapshot items, the same NamespacePSA elements at the
\* same positions; a lookup of an absent subject or key adds no key.
C21_InputsUnchanged ==
  [][DifferReturns =>
       /\ rbacBaseline' = rbacBaseline /\ rbacLive' = rbacLive
       /\ netpolBaseline' = netpolBaseline /\ netpolLive' = netpolLive
       /\ psaBaseline' = psaBaseline /\ psaLive' = psaLive]_vars

\* DiffRBAC has returned on snapshots where it looked up, in the baseline, a
\* subject only the live snapshot has and, in a permission set of the live
\* snapshot, a permission only the baseline has
C21_Witness ==
  /\ rbacDrift.done
  /\ \E s \in DOMAIN rbacLive : s \notin DOMAIN rbacBaseline
  /\ \E s \in DOMAIN rbacBaseline \cap DOMAIN rbacLive : rbacBaseline[s] \ rbacLive[s] # {}

\* DiffNetworkPolicies has returned after the lookup of a key one snapshot lacks
C21_WitnessNetPol ==
  /\ netpolDrift.done
  /\ DOMAIN netpolBaseline.Items # DOMAIN netpolLive.Items

\* DiffPSA has returned on two collections of two elements
C21_WitnessPSA ==
  /\ psaDrift.done
  /\ Len(psaBaseline) = 2 /\ Len(psaLive) = 2

====
